---- MODULE Spec2Model ----
(***************************************************************************)
(* Load-testing harness of the INR100 platform.                            *)
(*                                                                         *)
(*   Spec    LoadTester (scripts/load-testing.js): testEndpoint batches,   *)
(*           the requests of a batch, the shared accumulator.              *)
(*   SpecDb  DatabaseLoadTester (scripts/database-load-testing.js): the    *)
(*           connection pool, executeQuery calls and the three batches     *)
(*           built on them.                                                *)
(*   SpecReport  LoadTester.generateReport over the outcomes accumulated   *)
(*           by whole batches: percentiles, summary, recommendations.      *)
(*   SpecRun LoadTestRunner (scripts/load-test-runner.js): one command,    *)
(*           runScenario or runComprehensiveSuite, and its final report.   *)
(*   SpecCalc  what the LoadTestRunner computes from measured Results: the *)
(*           spike verdict, stability score and trend, grade, readiness,   *)
(*           recommendations.                                              *)
(*   SpecCaller  the functions that call testEndpoint in a row, composed   *)
(*           with the requests of each call.                               *)
(*   SpecStress  LoadTester.stressTest alone, composed with the requests   *)
(*           of each call.                                                 *)
(*   SpecMonitor  LoadTestRunner.runContinuousTest: its sampling loop on   *)
(*           the clock.                                                    *)
(*                                                                         *)
(* JavaScript runs every callback to completion, so one action is one      *)
(* synchronous stretch of code between two suspension points.              *)
(***************************************************************************)
EXTENDS Integers, Sequences, FiniteSets, TLC

(***************************************************************************)
(* Bounds of the model.                                                    *)
(***************************************************************************)
MaxUsers == 2
MaxRequestsPerUser == 2
MaxTotalRequests == 2
MaxBatches == 2

\* Values the environment can produce.
ValidUrls == {"http://h/a", "http://h/b"}
MalformedUrl == "not a url"
Urls == ValidUrls \cup {MalformedUrl}
StatusCodes == {200, 400}
Latencies == {0, 2}

(***************************************************************************)
(* JavaScript numbers: a rational n/d in lowest terms, NaN, or +-Infinity. *)
(***************************************************************************)
RECURSIVE Gcd(_, _)
Gcd(a, b) == IF b = 0 THEN a ELSE Gcd(b, a % b)

Abs(x) == IF x < 0 THEN -x ELSE x

Rat(n, d) ==
    LET g == Gcd(Abs(n), d)
    IN  [k |-> "num", n |-> n \div g, d |-> d \div g]

Num(n) == [k |-> "num", n |-> n, d |-> 1]
NaN == [k |-> "nan", n |-> 0, d |-> 1]
PosInfinity == [k |-> "inf", n |-> 1, d |-> 1]
NegInfinity == [k |-> "inf", n |-> -1, d |-> 1]

\* a / b for integers a >= 0, b >= 0
JsDiv(a, b) ==
    IF b = 0 THEN (IF a = 0 THEN NaN ELSE PosInfinity) ELSE Rat(a, b)

\* x * m for a JavaScript number x and an integer m > 0
JsTimes(x, m) ==
    IF x.k = "num" THEN Rat(x.n * m, x.d) ELSE x

\* x / m for a non-negative integer x and a JavaScript number m >= 0
JsDivBy(x, m) ==
    IF m.k = "nan" THEN NaN
    ELSE IF m.k = "inf" THEN Num(0)
    ELSE IF m.n = 0 THEN (IF x = 0 THEN NaN ELSE PosInfinity)
    ELSE Rat(x * m.d, m.n)

RECURSIVE SumSeq(_)
SumSeq(s) == IF s = <<>> THEN 0 ELSE Head(s) + SumSeq(Tail(s))

SeqMax(s) == CHOOSE x \in {s[i] : i \in DOMAIN s} : \A i \in DOMAIN s : s[i] <= x
SeqMin(s) == CHOOSE x \in {s[i] : i \in DOMAIN s} : \A i \in DOMAIN s : x <= s[i]

\* Math.max(...xs) and Math.min(...xs)
MathMax(s) == IF s = <<>> THEN NegInfinity ELSE Num(SeqMax(s))
MathMin(s) == IF s = <<>> THEN PosInfinity ELSE Num(SeqMin(s))

(***************************************************************************)
(* State                                                                   *)
(***************************************************************************)
VARIABLES
    results,      \* LoadTester.results: summary, detailed, endpoints
    pc,           \* testEndpoint: "idle", "awaiting" (Promise.all), "crashed"
    batch,        \* arguments of the running testEndpoint call
    promises,     \* the promises array of the running call, in push order
    returned,     \* the endpointResult the last call returned, or NoResult
    nBatches,     \* testEndpoint calls made so far
    nRequests,    \* requests issued so far
    target        \* the service under test: "up", or "silent" (never answers)

VARIABLES
    pool,         \* DatabaseLoadTester.pool: "null" until initialize() creates it
    dbMode,       \* the database: "healthy", or "faulty" (anything may fail)
    inUse,        \* connections of the pool that are checked out or being handed out
    connQueue,    \* executeQuery calls waiting in the pool's queue, oldest first
    calls,        \* the executeQuery calls of the running batch, in call order
    dbTest,       \* the running batch of DatabaseLoadTester
    dbReturned    \* what the last batch returned; NoDbResult while one runs

VARIABLES
    report,       \* what the last generateReport() returned; NoReport before
    nReports      \* generateReport() calls since the last testEndpoint call

VARIABLES
    runPc,        \* LoadTestRunner: the position of the running command
    run,          \* the running runScenario call and the suite around it
    runnerResults,\* LoadTestRunner.results
    finalReport   \* the report of generateComprehensiveReport, or NoReport

VARIABLES
    calc          \* the last evaluation of the runner: what was computed, from
                  \* which measurements, and the value

VARIABLES
    caller        \* the function that calls testEndpoint in a row: its calls
                  \* so far and its position

VARIABLES
    monitor       \* runContinuousTest: its position, the clock, its probes and
                  \* its samples

httpVars == <<results, pc, batch, promises, returned, nBatches, nRequests, target>>
reportVars == <<report, nReports>>
dbVars == <<pool, dbMode, inUse, connQueue, calls, dbTest, dbReturned>>
runVars == <<runPc, run, runnerResults, finalReport>>
calcVars == <<calc>>
callerVars == <<caller>>
monitorVars == <<monitor>>
vars == <<httpVars, reportVars, dbVars, runVars, calcVars, callerVars,
          monitorVars>>

NoResult == [none |-> TRUE]
NoBatch == [url |-> "", concurrentUsers |-> 0, requestsPerUser |-> 0]

NoOutcome == [none |-> TRUE]

(***************************************************************************)
(* LoadTester.makeRequest                                                  *)
(***************************************************************************)
\* new URL(url) throws inside the Promise executor, which rejects the promise
MakeRequestRejects(url) == url \notin ValidUrls

\* res.on('end'): the response arrived
ResponseSuccess(statusCode) == statusCode < 400

ResponseOutcome(statusCode, responseTime) ==
    [statusCode |-> statusCode, responseTime |-> responseTime,
     success |-> ResponseSuccess(statusCode), error |-> ""]

\* req.on('error'): the request failed
ErrorOutcome(responseTime) ==
    [statusCode |-> 0, responseTime |-> responseTime,
     success |-> FALSE, error |-> "message"]

(***************************************************************************)
(* LoadTester.testEndpoint                                                 *)
(***************************************************************************)
\* The promise pushed for (user, request): its executor has already called
\* makeRequest, so the request is in flight, or makeRequest has rejected and
\* the promise can never be resolved.
NewPromise(url, user, request) ==
    [user |-> user, request |-> request,
     state |-> IF MakeRequestRejects(url) THEN "rejected" ELSE "inflight",
     outcome |-> NoOutcome,
     timer |-> "none"]

\* for (user ...) for (request ...) promises.push(new Promise(...))
LaunchAll(url, concurrentUsers, requestsPerUser) ==
    [i \in 1..(concurrentUsers * requestsPerUser) |->
        NewPromise(url, (i - 1) \div requestsPerUser, (i - 1) % requestsPerUser)]

\* after resolve(result): the delay between requests from the same user
TimerAfter(request, requestsPerUser) ==
    IF request < requestsPerUser - 1 THEN "waiting" ELSE "none"

Settle(p, outcome) ==
    [p EXCEPT !.state = "resolved", !.outcome = outcome,
              !.timer = TimerAfter(p.request, batch.requestsPerUser)]

\* (variant: resumes on the first settled promise, as Promise.race would)
SomeResolved(ps) == \E i \in DOMAIN ps : ps[i].state = "resolved"

\* await Promise.all(promises) resumes
AllResolved(ps) == \A i \in DOMAIN ps : ps[i].state = "resolved"

\* the values Promise.all hands over
Outcomes(ps) ==
    LET done == SelectSeq(ps, LAMBDA p : p.state = "resolved")
    IN  [i \in DOMAIN done |-> done[i].outcome]

IsSuccess(r) == r.success
IsFailure(r) == ~r.success
Successful(rs) == SelectSeq(rs, IsSuccess)
\* (variant: counts the outcomes that carry an error message)
FailedWithError(rs) == SelectSeq(rs, LAMBDA r : r.error # "")
Failed(rs) == SelectSeq(rs, IsFailure)
ResponseTimes(rs) == [i \in DOMAIN rs |-> rs[i].responseTime]

ErrorRate(nFailed, nResults) == JsTimes(JsDiv(nFailed, nResults), 100)
RequestsPerSecond(nResults, totalTime) == JsDivBy(nResults, Rat(totalTime, 1000))

EndpointResult(b, rs, totalTime) ==
    [url |-> b.url,
     concurrentUsers |-> b.concurrentUsers,
     requestsPerUser |-> b.requestsPerUser,
     totalRequests |-> Len(rs),
     successfulRequests |-> Len(Successful(rs)),
     failedRequests |-> Len(Failed(rs)),
     totalTime |-> totalTime,
     avgResponseTime |-> JsDiv(SumSeq(ResponseTimes(rs)), Len(rs)),
     maxResponseTime |-> MathMax(ResponseTimes(rs)),
     minResponseTime |-> MathMin(ResponseTimes(rs)),
     requestsPerSecond |-> RequestsPerSecond(Len(rs), totalTime),
     errorRate |-> ErrorRate(Len(Failed(rs)), Len(rs))]

Max(a, b) == IF a >= b THEN a ELSE b

\* (variant: the outcomes of the batch replace the stored ones)
AccumulateLastBatch(acc, rs, er) ==
    [summary |-> [acc.summary EXCEPT
                    !.totalRequests = @ + Len(rs),
                    !.successfulRequests = @ + Len(Successful(rs)),
                    !.failedRequests = @ + Len(Failed(rs)),
                    !.totalTime = Max(@, er.totalTime)],
     detailed |-> rs,
     endpoints |-> [u \in DOMAIN acc.endpoints \cup {er.url} |->
                        IF u = er.url THEN er ELSE acc.endpoints[u]]]

\* "Store results" and "Update summary"
Accumulate(acc, rs, er) ==
    [summary |-> [acc.summary EXCEPT
                    !.totalRequests = @ + Len(rs),
                    !.successfulRequests = @ + Len(Successful(rs)),
                    !.failedRequests = @ + Len(Failed(rs)),
                    !.totalTime = Max(@, er.totalTime)],
     detailed |-> acc.detailed \o rs,
     endpoints |-> [u \in DOMAIN acc.endpoints \cup {er.url} |->
                        IF u = er.url THEN er ELSE acc.endpoints[u]]]

\* constructor
InitialResults ==
    [summary |-> [totalRequests |-> 0, successfulRequests |-> 0,
                  failedRequests |-> 0, totalTime |-> 0,
                  avgResponseTime |-> Num(0), maxResponseTime |-> Num(0),
                  minResponseTime |-> PosInfinity,
                  requestsPerSecond |-> Num(0), errorRate |-> Num(0)],
     detailed |-> <<>>,
     endpoints |-> <<>>]

HttpInit ==
    /\ results = InitialResults
    /\ pc = "idle"
    /\ batch = NoBatch
    /\ promises = <<>>
    /\ returned = NoResult
    /\ nBatches = 0
    /\ nRequests = 0
    /\ target \in {"up", "silent"}

\* testEndpoint is called: every request of the batch is issued in the
\* synchronous double loop, then the call suspends in Promise.all.
TestEndpoint(url, concurrentUsers, requestsPerUser) ==
    /\ pc = "idle"
    /\ nBatches < MaxBatches
    /\ nRequests + concurrentUsers * requestsPerUser <= MaxTotalRequests
    /\ batch' = [url |-> url, concurrentUsers |-> concurrentUsers,
                 requestsPerUser |-> requestsPerUser]
    /\ promises' = LaunchAll(url, concurrentUsers, requestsPerUser)
    /\ pc' = "awaiting"
    /\ nBatches' = nBatches + 1
    /\ nRequests' = nRequests + concurrentUsers * requestsPerUser
    /\ UNCHANGED <<results, returned, target>>
    /\ UNCHANGED <<reportVars, dbVars, runVars, calcVars, callerVars, monitorVars>>

\* the target answers request i
Respond(i, statusCode, responseTime) ==
    /\ pc = "awaiting"
    /\ target = "up"
    /\ promises[i].state = "inflight"
    /\ promises' = [promises EXCEPT ![i] = Settle(@, ResponseOutcome(statusCode, responseTime))]
    /\ UNCHANGED <<results, pc, batch, returned, nBatches, nRequests, target>>
    /\ UNCHANGED <<reportVars, dbVars, runVars, calcVars, callerVars, monitorVars>>

\* request i fails with a network error
RequestError(i, responseTime) ==
    /\ pc = "awaiting"
    /\ target = "up"
    /\ promises[i].state = "inflight"
    /\ promises' = [promises EXCEPT ![i] = Settle(@, ErrorOutcome(responseTime))]
    /\ UNCHANGED <<results, pc, batch, returned, nBatches, nRequests, target>>
    /\ UNCHANGED <<reportVars, dbVars, runVars, calcVars, callerVars, monitorVars>>

\* the delay after request i elapses; nothing waits for it
TimerFires(i) ==
    /\ pc = "awaiting"
    /\ promises[i].timer = "waiting"
    /\ promises' = [promises EXCEPT ![i].timer = "elapsed"]
    /\ UNCHANGED <<results, pc, batch, returned, nBatches, nRequests, target>>
    /\ UNCHANGED <<reportVars, dbVars, runVars, calcVars, callerVars, monitorVars>>

\* The rejection of makeRequest surfaces in the async executor, where nothing
\* handles it. What the runtime does with an unhandled rejection is its
\* choice: it ends the process, or it warns and goes on (this action does not
\* fire) and the promise stays pending for ever.
UnhandledRejection ==
    /\ pc = "awaiting"
    /\ \E i \in DOMAIN promises : promises[i].state = "rejected"
    /\ pc' = "crashed"
    /\ UNCHANGED <<results, batch, promises, returned, nBatches, nRequests, target>>
    /\ UNCHANGED <<reportVars, dbVars, runVars, calcVars, callerVars, monitorVars>>

\* performance.now() - startTime when Promise.all resumes. Every request of
\* the batch was issued in the loop just before startTime was read, so the
\* elapsed time of the batch is the time its slowest request took.
TotalTime(rs) == IF rs = <<>> THEN 0 ELSE SeqMax(ResponseTimes(rs))

\* Promise.all has resolved: analyse, store, update the summary, return.
\* Delay timers still pending have no effect and leave the model here.
Aggregate ==
    /\ pc = "awaiting"
    /\ AllResolved(promises)
    /\ LET rs == Outcomes(promises)
           er == EndpointResult(batch, rs, TotalTime(rs))
       IN  /\ results' = Accumulate(results, rs, er)
           /\ returned' = er
    /\ pc' = "idle"
    /\ promises' = <<>>
    /\ batch' = NoBatch
    /\ UNCHANGED <<nBatches, nRequests, target>>
    /\ UNCHANGED <<reportVars, dbVars, runVars, calcVars, callerVars, monitorVars>>

\* <<concurrentUsers, requestsPerUser>> of the calls explored; the empty
\* batch is the one with no users
BatchShapes ==
    {sh \in (0..MaxUsers) \X (1..MaxRequestsPerUser) : sh[1] = 0 => sh[2] = 1}

HttpNext ==
    \/ \E url \in Urls, shape \in BatchShapes :
            TestEndpoint(url, shape[1], shape[2])
    \/ \E i \in DOMAIN promises, st \in StatusCodes, rt \in Latencies :
            Respond(i, st, rt)
    \/ \E i \in DOMAIN promises, rt \in Latencies : RequestError(i, rt)
    \/ \E i \in DOMAIN promises : TimerFires(i)
    \/ UnhandledRejection
    \/ Aggregate

(***************************************************************************)
(* LoadTester.generateReport                                               *)
(***************************************************************************)
\* the most outcomes a LoadTester accumulates before it reports
MaxSamples == 3
\* the most generateReport() calls between two batches
MaxReports == 2

NoReport == [none |-> TRUE]

\* the value of an array element that does not exist
Undefined == [k |-> "undefined", n |-> 0, d |-> 1]

\* x + y for JavaScript numbers
JsAdd(x, y) ==
    IF x.k = "nan" \/ y.k = "nan" THEN NaN
    ELSE IF x.k = "inf" /\ y.k = "inf" THEN (IF x.n = y.n THEN x ELSE NaN)
    ELSE IF x.k = "inf" THEN x
    ELSE IF y.k = "inf" THEN y
    ELSE Rat(x.n * y.d + y.n * x.d, x.d * y.d)

\* x / m for a JavaScript number x and an integer m > 0
JsOver(x, m) == IF x.k = "num" THEN Rat(x.n, x.d * m) ELSE x

\* a || b: 0 and NaN are falsy
JsOr(a, b) == IF a.k = "inf" \/ (a.k = "num" /\ a.n # 0) THEN a ELSE b

\* x > c and x < c for a JavaScript number x and an integer c
JsGt(x, c) == (x.k = "inf" /\ x.n > 0) \/ (x.k = "num" /\ x.n > c * x.d)
JsLt(x, c) == (x.k = "inf" /\ x.n < 0) \/ (x.k = "num" /\ x.n < c * x.d)

\* Math.ceil(a / b) for integers a >= 0, b > 0
Ceil(a, b) == (a + b - 1) \div b

RECURSIVE Insert(_, _)
Insert(x, s) ==
    IF s = <<>> THEN <<x>>
    ELSE IF x <= Head(s) THEN <<x>> \o s
    ELSE <<Head(s)>> \o Insert(x, Tail(s))

\* (variant: the response times are used in arrival order)
Unsorted(s) == s

\* responseTimes.sort((a, b) => a - b)
RECURSIVE SortAsc(_)
SortAsc(s) == IF s = <<>> THEN <<>> ELSE Insert(Head(s), SortAsc(Tail(s)))

\* (variant: the index is Math.floor((p / 100) * length))
PercentileFloorIndex(sortedArray, p) ==
    LET index == (p * Len(sortedArray)) \div 100
    IN  IF index + 1 \in DOMAIN sortedArray
        THEN Num(sortedArray[index + 1]) ELSE Undefined

\* percentile(sortedArray, p); arrays are indexed from 0 in the code and
\* from 1 here
Percentile(sortedArray, p) ==
    LET index == Ceil(p * Len(sortedArray), 100) - 1
    IN  IF Max(0, index) + 1 \in DOMAIN sortedArray
        THEN Num(sortedArray[Max(0, index) + 1]) ELSE Undefined

\* analyzePerformance(); memoryUsage and uptime are values of the process
AnalyzePerformance(res) ==
    LET responseTimes == ResponseTimes(res.detailed)
        sortedTimes == SortAsc(responseTimes)
    IN  [p50 |-> Percentile(sortedTimes, 50),
         p90 |-> Percentile(sortedTimes, 90),
         p95 |-> Percentile(sortedTimes, 95),
         p99 |-> Percentile(sortedTimes, 99),
         throughput |-> res.summary.requestsPerSecond,
         averageResponseTime |-> res.summary.avgResponseTime]

\* generateRecommendations(): the types of the recommendations, in order
GenerateRecommendations(res) ==
    LET avgResponseTime == JsOr(res.summary.avgResponseTime, Num(0))
        errorRate == JsOr(res.summary.errorRate, Num(0))
        requestsPerSecond == JsOr(res.summary.requestsPerSecond, Num(0))
    IN  (IF JsGt(avgResponseTime, 2000) THEN <<"performance">> ELSE <<>>)
        \o (IF JsGt(errorRate, 5) THEN <<"reliability">> ELSE <<>>)
        \o (IF JsLt(requestsPerSecond, 100) THEN <<"scalability">> ELSE <<>>)
        \o (IF JsLt(avgResponseTime, 500) /\ JsLt(errorRate, 1)
            THEN <<"success">> ELSE <<>>)

\* the report object of generateReport(), without its timestamp
Report(res) ==
    LET summary == res.summary
        times == ResponseTimes(res.detailed)
    IN  [summary |-> [summary EXCEPT
            !.avgResponseTime =
                JsOr(@, JsDiv(SumSeq(times), Len(res.detailed))),
            !.maxResponseTime = MathMax(times),
            !.minResponseTime = MathMin(times),
            !.requestsPerSecond =
                JsDivBy(summary.totalRequests, Rat(summary.totalTime, 1000)),
            !.errorRate = ErrorRate(summary.failedRequests, summary.totalRequests)],
         endpoints |-> res.endpoints,
         performance |-> AnalyzePerformance(res),
         recommendations |-> GenerateRecommendations(res)]

RECURSIVE InsertOutcome(_, _)
InsertOutcome(r, rs) ==
    IF rs = <<>> THEN <<r>>
    ELSE IF r.responseTime <= Head(rs).responseTime THEN <<r>> \o rs
    ELSE <<Head(rs)>> \o InsertOutcome(r, Tail(rs))

\* (variant: analyzePerformance sorts results.detailed itself, in place)
RECURSIVE DetailedSortedInPlace(_)
DetailedSortedInPlace(detailed) ==
    IF detailed = <<>> THEN <<>>
    ELSE InsertOutcome(Head(detailed), DetailedSortedInPlace(Tail(detailed)))

\* results.detailed after generateReport(): map() hands sort() a new array,
\* so the accumulated outcomes keep their order
DetailedAfterReport(detailed) == detailed

ReportInit ==
    /\ report = NoReport
    /\ nReports = 0

\* the outcomes a request of the batches below ends with
ReportOutcomes ==
    {ResponseOutcome(200, 1), ResponseOutcome(400, 2), ErrorOutcome(3)}

\* the batches explored: the outcomes of their requests, in promise order
ReportBatches ==
    UNION {[1..n -> ReportOutcomes] : n \in 0..MaxSamples}

\* testEndpoint from its call to its return, against a target that answers
\* every request: rs are the values Promise.all hands over
TestEndpointReturns(url, rs) ==
    /\ pc = "idle"
    /\ nBatches < MaxBatches
    /\ Len(results.detailed) + Len(rs) <= MaxSamples
    /\ LET b == [url |-> url, concurrentUsers |-> Len(rs), requestsPerUser |-> 1]
           er == EndpointResult(b, rs, TotalTime(rs))
       IN  /\ results' = Accumulate(results, rs, er)
           /\ returned' = er
    /\ nBatches' = nBatches + 1
    /\ nRequests' = nRequests + Len(rs)
    /\ report' = NoReport
    /\ nReports' = 0
    /\ UNCHANGED <<pc, batch, promises, target>>
    /\ UNCHANGED <<dbVars, runVars, calcVars, callerVars, monitorVars>>

\* generateReport() is called between two batches
GenerateReport ==
    /\ pc = "idle"
    /\ nReports < MaxReports
    /\ report' = Report(results)
    /\ results' = [results EXCEPT !.detailed = DetailedAfterReport(@)]
    /\ nReports' = nReports + 1
    /\ UNCHANGED <<pc, batch, promises, returned, nBatches, nRequests, target>>
    /\ UNCHANGED <<dbVars, runVars, calcVars, callerVars, monitorVars>>

ReportNext ==
    \/ \E url \in ValidUrls, rs \in ReportBatches : TestEndpointReturns(url, rs)
    \/ GenerateReport

(***************************************************************************)
(* DatabaseLoadTester                                                      *)
(***************************************************************************)
\* connectionLimit of the pool
ConnectionLimit == 2
\* the most executeQuery calls one batch makes
MaxQueries == 3
\* the entries of testQueries that testINR100Queries runs
NumTestQueries == 1
\* const runs = 10
Runs == 10

QueryTime == 2

NoTest ==
    [kind |-> "none", args |-> <<0, 0>>, total |-> 0, looping |-> FALSE,
     query |-> 0, results |-> <<>>, queryResults |-> <<>>]

NoDbResult == [kind |-> "none"]

\* the object executeQuery returns from its try block
SuccessOutcome == [success |-> TRUE, queryTime |-> QueryTime, error |-> "null"]
\* the object executeQuery returns from its catch block
FailedOutcome == [success |-> FALSE, queryTime |-> QueryTime, error |-> "message"]

\* (variant: getConnection() is called before the try block)
CatchCoversExecuteOnly(stage) == stage = "execute"

\* try { ... } catch (error): the stages of executeQuery the try block covers
CatchCovers(stage) == stage \in {"acquire", "execute"}

\* (variant: release() at the end of the try block instead of in finally)
ReleaseOnSuccessOnly(connection, outcome) == connection /\ outcome.success

\* finally { if (connection) connection.release() }
ShouldRelease(connection, outcome) == connection

\* The state executeQuery works on: the calls, and the pool's counters.
DbState == [calls |-> calls, inUse |-> inUse, queue |-> connQueue]

\* an executeQuery call that ended with an error at `stage`
Errored(call, stage) ==
    IF CatchCovers(stage)
    THEN [call EXCEPT !.pc = "returned", !.slot = FALSE, !.outcome = FailedOutcome]
    ELSE [call EXCEPT !.pc = "threw", !.slot = FALSE]

\* (variant: waitForConnections: false, an exhausted pool fails the caller)
GetConnectionNoWait(D) ==
    LET fresh == [pc |-> "acquiring", slot |-> FALSE, connection |-> FALSE,
                  outcome |-> NoOutcome, released |-> 0]
    IN  IF pool = "null" \/ D.inUse >= ConnectionLimit
        THEN [D EXCEPT !.calls = Append(@, Errored(fresh, "acquire"))]
        ELSE [D EXCEPT !.calls = Append(@, [fresh EXCEPT !.slot = TRUE]),
                       !.inUse = @ + 1]

\* pool.getConnection() with waitForConnections: true and queueLimit: 0: a
\* connection below the limit is handed out, otherwise the caller queues.
GetConnection(D) ==
    LET c == Len(D.calls) + 1
        fresh == [pc |-> "acquiring", slot |-> FALSE, connection |-> FALSE,
                  outcome |-> NoOutcome, released |-> 0]
    IN  IF pool = "null"
        THEN [D EXCEPT !.calls = Append(@, Errored(fresh, "acquire"))]
        ELSE IF D.inUse < ConnectionLimit
        THEN [D EXCEPT !.calls = Append(@, [fresh EXCEPT !.slot = TRUE]),
                       !.inUse = @ + 1]
        ELSE [D EXCEPT !.calls = Append(@, fresh), !.queue = Append(@, c)]

\* connection.release(): the connection goes to the oldest waiter, if any
ReleaseConnection(D) ==
    IF D.queue # <<>>
    THEN [D EXCEPT !.calls[Head(D.queue)].slot = TRUE, !.queue = Tail(@)]
    ELSE [D EXCEPT !.inUse = @ - 1]

\* executeQuery is called n times in a row (each runs to its first await)
RECURSIVE ExecuteQueries(_, _)
ExecuteQueries(D, n) ==
    IF n = 0 THEN D ELSE ExecuteQueries(GetConnection(D), n - 1)

\* call c leaves executeQuery with `outcome`, through the finally block
Leave(D, c, outcome) ==
    LET call == D.calls[c]
        rel == ShouldRelease(call.connection, outcome)
        left == [D EXCEPT !.calls[c] =
                    [call EXCEPT !.pc = "returned", !.outcome = outcome,
                                 !.released = IF rel THEN @ + 1 ELSE @]]
    IN  IF rel THEN ReleaseConnection(left) ELSE left

RemoveFromQueue(q, c) == SelectSeq(q, LAMBDA x : x # c)

AllReturned(cs) == \A c \in DOMAIN cs : cs[c].pc = "returned"
AnyThrew(cs) == \E c \in DOMAIN cs : cs[c].pc = "threw"
QueryOutcomes(cs) == [c \in DOMAIN cs |-> cs[c].outcome]
QueryTimes(rs) == [i \in DOMAIN rs |-> rs[i].queryTime]

\* poolResult of testConnectionPool
PoolResult(args, rs) ==
    [kind |-> "pool",
     concurrentConnections |-> args[1],
     queriesPerConnection |-> args[2],
     totalQueries |-> Len(rs),
     successfulQueries |-> Len(Successful(rs)),
     failedQueries |-> Len(Failed(rs)),
     avgQueryTime |-> JsDiv(SumSeq(QueryTimes(rs)), Len(rs)),
     maxQueryTime |-> MathMax(QueryTimes(rs)),
     minQueryTime |-> MathMin(QueryTimes(rs))]

\* concurrentResult of testConcurrentLoad
ConcurrentResult(args, rs) ==
    [kind |-> "load",
     concurrentUsers |-> args[1],
     durationSeconds |-> args[2],
     totalQueries |-> Len(rs),
     successfulQueries |-> Len(Successful(rs)),
     failedQueries |-> Len(Failed(rs)),
     avgQueryTime |-> JsDiv(SumSeq(QueryTimes(rs)), Len(rs)),
     maxQueryTime |-> MathMax(QueryTimes(rs)),
     minQueryTime |-> MathMin(QueryTimes(rs)),
     errorRate |-> ErrorRate(Len(Failed(rs)), Len(rs))]

\* results.filter(r => !r.error)
HasNoError(r) == r.error = "null"

\* queryResults[testQuery.name] of testINR100Queries
QueryResult(rs) ==
    [runs |-> Runs,
     successful |-> Len(Successful(rs)),
     failed |-> Len(SelectSeq(rs, HasNoError)),
     avgQueryTime |-> JsDiv(SumSeq(QueryTimes(rs)), Len(rs)),
     maxQueryTime |-> MathMax(QueryTimes(rs)),
     minQueryTime |-> MathMin(QueryTimes(rs)),
     successRate |-> JsTimes(JsDiv(Len(Successful(rs)), Runs), 100)]

\* Math.floor(concurrentUsers * (durationSeconds / 2))
TotalQueries(concurrentUsers, durationSeconds) ==
    (concurrentUsers * durationSeconds) \div 2

Aborted == [NoTest EXCEPT !.kind = "aborted"]
Rejected == [kind |-> "rejected"]

DbInit ==
    /\ pool = "null"
    /\ dbMode \in {"healthy", "faulty"}
    /\ inUse = 0
    /\ connQueue = <<>>
    /\ calls = <<>>
    /\ dbTest = NoTest
    /\ dbReturned = NoDbResult

SetDbState(D) ==
    /\ calls' = D.calls
    /\ inUse' = D.inUse
    /\ connQueue' = D.queue

\* initialize(): createPool; the trial connection is released again
Initialize ==
    /\ dbTest.kind = "none"
    /\ pool = "null"
    /\ pool' = "ready"
    /\ UNCHANGED <<dbMode, inUse, connQueue, calls, dbTest, dbReturned>>
    /\ UNCHANGED <<httpVars, reportVars, runVars, calcVars, callerVars, monitorVars>>

\* testConnectionPool: every query of the batch is started in the double loop
TestConnectionPool(concurrentConnections, queriesPerConnection) ==
    /\ dbTest.kind = "none"
    /\ concurrentConnections * queriesPerConnection <= MaxQueries
    /\ dbTest' = [NoTest EXCEPT !.kind = "pool",
                    !.args = <<concurrentConnections, queriesPerConnection>>,
                    !.total = concurrentConnections * queriesPerConnection]
    /\ SetDbState(ExecuteQueries([DbState EXCEPT !.calls = <<>>],
                                 concurrentConnections * queriesPerConnection))
    /\ dbReturned' = NoDbResult
    /\ UNCHANGED <<pool, dbMode>>
    /\ UNCHANGED <<httpVars, reportVars, runVars, calcVars, callerVars, monitorVars>>

\* await this.pool.getConnection() resumes with a connection
Grant(c) ==
    /\ calls[c].pc = "acquiring"
    /\ calls[c].slot
    /\ calls' = [calls EXCEPT ![c].pc = "executing", ![c].connection = TRUE]
    /\ UNCHANGED <<pool, dbMode, inUse, connQueue, dbTest, dbReturned>>
    /\ UNCHANGED <<httpVars, reportVars, runVars, calcVars, callerVars, monitorVars>>

\* await this.pool.getConnection() fails: the connection cannot be made, or
\* the wait in the queue times out
AcquireFails(c) ==
    /\ dbMode = "faulty"
    /\ calls[c].pc = "acquiring"
    /\ LET D == [DbState EXCEPT !.calls[c] = Errored(@, "acquire"),
                                !.queue = RemoveFromQueue(@, c)]
       IN  SetDbState(IF calls[c].slot THEN ReleaseConnection(D) ELSE D)
    /\ UNCHANGED <<pool, dbMode, dbTest, dbReturned>>
    /\ UNCHANGED <<httpVars, reportVars, runVars, calcVars, callerVars, monitorVars>>

\* await connection.execute(query, params) resumes or fails
QueryDone(c, ok) ==
    /\ calls[c].pc = "executing"
    /\ ok \/ dbMode = "faulty"
    /\ SetDbState(
         IF ok THEN Leave(DbState, c, SuccessOutcome)
         ELSE IF CatchCovers("execute") THEN Leave(DbState, c, FailedOutcome)
         ELSE [DbState EXCEPT !.calls[c] = Errored(@, "execute")])
    /\ UNCHANGED <<pool, dbMode, dbTest, dbReturned>>
    /\ UNCHANGED <<httpVars, reportVars, runVars, calcVars, callerVars, monitorVars>>

\* Promise.all(promises) of testConnectionPool resumes (or rejects)
PoolTestReturn ==
    /\ dbTest.kind = "pool"
    /\ AllReturned(calls) \/ AnyThrew(calls)
    /\ IF AnyThrew(calls)
       THEN dbTest' = Aborted /\ dbReturned' = Rejected /\ UNCHANGED calls
       ELSE /\ dbTest' = NoTest
            /\ dbReturned' = PoolResult(dbTest.args, QueryOutcomes(calls))
            /\ calls' = <<>>
    /\ UNCHANGED <<pool, dbMode, inUse, connQueue>>
    /\ UNCHANGED <<httpVars, reportVars, runVars, calcVars, callerVars, monitorVars>>

\* testINR100Queries: the first run of the first query
TestINR100Queries ==
    /\ dbTest.kind = "none"
    /\ dbTest' = [NoTest EXCEPT !.kind = "inr", !.total = Runs, !.query = 1]
    /\ SetDbState(GetConnection([DbState EXCEPT !.calls = <<>>]))
    /\ dbReturned' = NoDbResult
    /\ UNCHANGED <<pool, dbMode>>
    /\ UNCHANGED <<httpVars, reportVars, runVars, calcVars, callerVars, monitorVars>>

\* testINR100Queries after a run: results.push(result), the 10 ms delay, then
\* the next run, the next query, or the return of queryResults
InrNext ==
    /\ dbTest.kind = "inr"
    /\ calls[1].pc \in {"returned", "threw"}
    /\ IF AnyThrew(calls)
       THEN dbTest' = Aborted /\ dbReturned' = Rejected
            /\ UNCHANGED <<calls, inUse, connQueue>>
       ELSE LET rs == Append(dbTest.results, calls[1].outcome)
                qr == Append(dbTest.queryResults, QueryResult(rs))
                first == GetConnection([DbState EXCEPT !.calls = <<>>])
            IN  IF Len(rs) < Runs
                THEN /\ dbTest' = [dbTest EXCEPT !.results = rs]
                     /\ SetDbState(first)
                     /\ UNCHANGED dbReturned
                ELSE IF dbTest.query < NumTestQueries
                THEN /\ dbTest' = [dbTest EXCEPT !.query = @ + 1, !.results = <<>>,
                                                 !.queryResults = qr]
                     /\ SetDbState(first)
                     /\ UNCHANGED dbReturned
                ELSE /\ dbTest' = NoTest
                     /\ dbReturned' = [kind |-> "inr", queryResults |-> qr]
                     /\ calls' = <<>>
                     /\ UNCHANGED <<inUse, connQueue>>
    /\ UNCHANGED <<pool, dbMode>>
    /\ UNCHANGED <<httpVars, reportVars, runVars, calcVars, callerVars, monitorVars>>

\* testConcurrentLoad is called
TestConcurrentLoad(concurrentUsers, durationSeconds) ==
    /\ dbTest.kind = "none"
    /\ TotalQueries(concurrentUsers, durationSeconds) <= MaxQueries
    /\ dbTest' = [NoTest EXCEPT !.kind = "load", !.looping = TRUE,
                    !.args = <<concurrentUsers, durationSeconds>>,
                    !.total = TotalQueries(concurrentUsers, durationSeconds)]
    /\ calls' = <<>>
    /\ dbReturned' = NoDbResult
    /\ UNCHANGED <<pool, dbMode, inUse, connQueue>>
    /\ UNCHANGED <<httpVars, reportVars, runVars, calcVars, callerVars, monitorVars>>

\* one iteration of the loop of testConcurrentLoad: it ends when totalQueries
\* were started or the duration is over, otherwise it starts a query and
\* waits 5 ms
LoadIterate(timeUp) ==
    /\ dbTest.kind = "load"
    /\ dbTest.looping
    /\ IF Len(calls) >= dbTest.total \/ timeUp
       THEN dbTest' = [dbTest EXCEPT !.looping = FALSE]
            /\ UNCHANGED <<calls, inUse, connQueue>>
       ELSE SetDbState(GetConnection(DbState)) /\ UNCHANGED dbTest
    /\ UNCHANGED <<pool, dbMode, dbReturned>>
    /\ UNCHANGED <<httpVars, reportVars, runVars, calcVars, callerVars, monitorVars>>

\* Promise.all(promises) of testConcurrentLoad resumes (or rejects)
LoadReturn ==
    /\ dbTest.kind = "load"
    /\ ~dbTest.looping
    /\ AllReturned(calls) \/ AnyThrew(calls)
    /\ IF AnyThrew(calls)
       THEN dbTest' = Aborted /\ dbReturned' = Rejected /\ UNCHANGED calls
       ELSE /\ dbTest' = NoTest
            /\ dbReturned' = ConcurrentResult(dbTest.args, QueryOutcomes(calls))
            /\ calls' = <<>>
    /\ UNCHANGED <<pool, dbMode, inUse, connQueue>>
    /\ UNCHANGED <<httpVars, reportVars, runVars, calcVars, callerVars, monitorVars>>

\* <<concurrentConnections, queriesPerConnection>> and
\* <<concurrentUsers, durationSeconds>> of the calls explored
PoolShapes == (1..MaxQueries) \X (1..MaxQueries)
LoadShapes == (1..MaxQueries) \X (0..MaxQueries)

DbNext ==
    \/ Initialize
    \/ \E sh \in PoolShapes : TestConnectionPool(sh[1], sh[2])
    \/ \E c \in DOMAIN calls : Grant(c)
    \/ \E c \in DOMAIN calls : AcquireFails(c)
    \/ \E c \in DOMAIN calls, ok \in BOOLEAN : QueryDone(c, ok)
    \/ PoolTestReturn
    \/ TestINR100Queries
    \/ InrNext
    \/ \E sh \in LoadShapes : TestConcurrentLoad(sh[1], sh[2])
    \/ \E timeUp \in BOOLEAN : LoadIterate(timeUp)
    \/ LoadReturn

(***************************************************************************)
(* LoadTestRunner                                                          *)
(***************************************************************************)
\* const testSequence
TestSequence == <<"lightLoad", "moderateLoad", "heavyLoad">>

\* what runComprehensiveSuite starts, in the order of its code
SuiteSequence == TestSequence \o <<"spikeTest", "enduranceTest", "report">>

\* config.environments, and the environment arguments explored
Environments == {"development", "staging", "production"}
EnvironmentArgs == {"staging", "nowhere"}

\* config.scenarios as runScenario reads it, the loads scaled down to one or
\* two requests per batch and the endpoint lists to one or two endpoints;
\* databaseLoad declares databaseQueries and no endpoints; a
\* delayBetweenRequests of 0 stands for a scenario that does not set it
Scenarios ==
    [lightLoad |->
        [concurrentUsers |-> 1, requestsPerUser |-> 1, hasEndpoints |-> TRUE,
         endpoints |-> <<"/api/health">>, databaseQueries |-> FALSE,
         delayBetweenRequests |-> 200],
     moderateLoad |->
        [concurrentUsers |-> 2, requestsPerUser |-> 1, hasEndpoints |-> TRUE,
         endpoints |-> <<"/api/health", "/api/users/profile">>,
         databaseQueries |-> FALSE, delayBetweenRequests |-> 100],
     heavyLoad |->
        [concurrentUsers |-> 1, requestsPerUser |-> 2, hasEndpoints |-> TRUE,
         endpoints |-> <<"/api/health">>, databaseQueries |-> FALSE,
         delayBetweenRequests |-> 50],
     databaseLoad |->
        [concurrentUsers |-> 1, requestsPerUser |-> 1, hasEndpoints |-> FALSE,
         endpoints |-> <<>>, databaseQueries |-> TRUE,
         delayBetweenRequests |-> 0]]

\* a scenario a deployment may configure: endpoints and databaseQueries
MixedScenario ==
    [concurrentUsers |-> 1, requestsPerUser |-> 1, hasEndpoints |-> TRUE,
     endpoints |-> <<"/api/health">>, databaseQueries |-> TRUE,
     delayBetweenRequests |-> 0]

\* this.config.scenarios[scenarioName]
ScenarioTable ==
    [name \in DOMAIN Scenarios \cup {"webAndDatabase"} |->
        IF name = "webAndDatabase" THEN MixedScenario ELSE Scenarios[name]]

\* the scenario names explored; the last one is not configured
ScenarioArgs == DOMAIN ScenarioTable \cup {"noSuchScenario"}

\* the outcomes a request of the runner's batches ends with
RunnerOutcomes == {ResponseOutcome(200, 1), ResponseOutcome(400, 3)}

\* how dbTester.initialize() ends: true, the driver is not installed, or the
\* trial connection fails
InitializeOutcomes == {"connected", "noDriver", "unreachable"}

\* constructor, and the command that has not started
InitialRunnerResults ==
    [webTests |-> <<>>, databaseTests |-> <<>>,
     spikeTest |-> "undefined", enduranceTest |-> "undefined"]

NoRun ==
    [command |-> "none", environment |-> "", scenarioName |-> "", idx |-> 0,
     endpoint |-> 0, started |-> <<>>, failed |-> {}, saved |-> {},
     scenarioFailed |-> FALSE, dbInitFailed |-> FALSE, poolCreated |-> FALSE,
     cleanups |-> 0, warnings |-> 0, outcome |-> "none", error |-> "",
     exitCode |-> -1]

RunInit ==
    /\ runPc = "idle"
    /\ run = NoRun
    /\ runnerResults = InitialRunnerResults
    /\ finalReport = NoReport

\* object[key] = value with key = `${scenarioName}_${suffix}`: an object
\* keeps its keys in insertion order
SetEntry(entries, scenarioName, suffix, value) ==
    IF \E i \in DOMAIN entries :
            entries[i].scenario = scenarioName /\ entries[i].suffix = suffix
    THEN [i \in DOMAIN entries |->
            IF entries[i].scenario = scenarioName /\ entries[i].suffix = suffix
            THEN [entries[i] EXCEPT !.result = value] ELSE entries[i]]
    ELSE Append(entries,
                [scenario |-> scenarioName, suffix |-> suffix, result |-> value])

\* Object.values(object)
Values(entries) == [i \in DOMAIN entries |-> entries[i].result]

\* (variant: the latency and the error rate are pooled over all requests)
RECURSIVE PooledWebSummary(_)
PooledWebSummary(allResults) ==
    IF allResults = <<>>
    THEN [totalRequests |-> 0, successfulRequests |-> 0,
          avgResponseTime |-> Num(0), errorRate |-> Num(0)]
    ELSE LET acc == PooledWebSummary(Tail(allResults))
             result == Head(allResults)
             total == acc.totalRequests + result.totalRequests
             successful == acc.successfulRequests + result.successfulRequests
         IN  [totalRequests |-> total,
              successfulRequests |-> successful,
              avgResponseTime |->
                JsOver(JsAdd(JsTimes(acc.avgResponseTime, acc.totalRequests),
                             JsTimes(result.avgResponseTime, result.totalRequests)),
                       total),
              errorRate |-> JsTimes(JsDiv(total - successful, total), 100)]

\* allResults.reduce(...) of generateOverallSummary
RECURSIVE ReduceWeb(_, _)
ReduceWeb(acc, allResults) ==
    IF allResults = <<>> THEN acc
    ELSE LET result == Head(allResults)
         IN  ReduceWeb(
                [totalRequests |-> acc.totalRequests + result.totalRequests,
                 successfulRequests |->
                    acc.successfulRequests + result.successfulRequests,
                 avgResponseTime |->
                    JsAdd(acc.avgResponseTime, result.avgResponseTime),
                 errorRate |-> JsAdd(acc.errorRate, result.errorRate)],
                Tail(allResults))

\* webSummary of generateOverallSummary
WebSummary(allResults) ==
    LET sums == ReduceWeb([totalRequests |-> 0, successfulRequests |-> 0,
                           avgResponseTime |-> Num(0), errorRate |-> Num(0)],
                          allResults)
    IN  IF Len(allResults) > 0
        THEN [sums EXCEPT !.avgResponseTime = JsOver(@, Len(allResults)),
                          !.errorRate = JsOver(@, Len(allResults))]
        ELSE sums

\* variant: every threshold counts from its own value on
CalculateOverallGradeInclusive(webSummary) ==
    LET latency == IF ~JsLt(webSummary.avgResponseTime, 2000) THEN 30
                   ELSE IF ~JsLt(webSummary.avgResponseTime, 1000) THEN 20
                   ELSE IF ~JsLt(webSummary.avgResponseTime, 500) THEN 10
                   ELSE 0
        errors == IF ~JsLt(webSummary.errorRate, 5) THEN 25
                  ELSE IF ~JsLt(webSummary.errorRate, 1) THEN 15
                  ELSE IF ~JsLt(JsTimes(webSummary.errorRate, 10), 1) THEN 5
                  ELSE 0
        score == 100 - latency - errors
    IN  [grade |-> IF score >= 90 THEN "A"
                   ELSE IF score >= 80 THEN "B"
                   ELSE IF score >= 70 THEN "C"
                   ELSE IF score >= 60 THEN "D"
                   ELSE "F",
         score |-> score]

\* calculateOverallGrade
CalculateOverallGrade(webSummary) ==
    LET latency == IF JsGt(webSummary.avgResponseTime, 2000) THEN 30
                   ELSE IF JsGt(webSummary.avgResponseTime, 1000) THEN 20
                   ELSE IF JsGt(webSummary.avgResponseTime, 500) THEN 10
                   ELSE 0
        errors == IF JsGt(webSummary.errorRate, 5) THEN 25
                  ELSE IF JsGt(webSummary.errorRate, 1) THEN 15
                  ELSE IF JsGt(JsTimes(webSummary.errorRate, 10), 1) THEN 5
                  ELSE 0
        score == 100 - latency - errors
    IN  [grade |-> IF score >= 90 THEN "A"
                   ELSE IF score >= 80 THEN "B"
                   ELSE IF score >= 70 THEN "C"
                   ELSE IF score >= 60 THEN "D"
                   ELSE "F",
         score |-> score]

\* variant: ready on the response time alone
ReadyOnResponseTime(webSummary) ==
    LET criteria == [responseTime |-> JsLt(webSummary.avgResponseTime, 500),
                     errorRate |-> JsLt(webSummary.errorRate, 1),
                     stability |-> TRUE]
    IN  [ready |-> criteria.responseTime, criteria |-> criteria]

\* assessProductionReadiness
AssessProductionReadiness(webSummary) ==
    LET criteria == [responseTime |-> JsLt(webSummary.avgResponseTime, 500),
                     errorRate |-> JsLt(webSummary.errorRate, 1),
                     stability |-> TRUE]
    IN  [ready |-> criteria.responseTime /\ criteria.errorRate /\ criteria.stability,
         criteria |-> criteria]

\* summarizeDatabaseResults: the two counts of its result
SummarizeDatabaseResults(dbResults) ==
    [queryTests |->
        Len(SelectSeq(dbResults, LAMBDA r : ~r.hasQueriesPerSecond)),
     concurrentTests |->
        Len(SelectSeq(dbResults, LAMBDA r : r.hasQueriesPerSecond))]

\* generateOverallSummary
GenerateOverallSummary(rr) ==
    LET allResults == Values(rr.webTests)
        allDbResults == Values(rr.databaseTests)
    IN  IF Len(allResults) = 0 /\ Len(allDbResults) = 0
        THEN [message |-> "No test results available"]
        ELSE [webApplication |-> WebSummary(allResults),
              database |-> SummarizeDatabaseResults(allDbResults),
              overallGrade |-> CalculateOverallGrade(WebSummary(allResults)),
              readiness |-> AssessProductionReadiness(WebSummary(allResults))]

\* the report object of generateComprehensiveReport
ComprehensiveReport(rr, environment) ==
    [environment |-> environment,
     summary |-> GenerateOverallSummary(rr),
     webApplicationTests |-> rr.webTests,
     databaseTests |-> rr.databaseTests,
     spikeTest |-> rr.spikeTest,
     enduranceTest |-> rr.enduranceTest]

\* generateHtmlReport and printFinalSummary read report.summary.overallGrade.grade
\* and report.summary.readiness.ready: a TypeError when summary has neither
RendersSummary(summary) ==
    "overallGrade" \in DOMAIN summary /\ "readiness" \in DOMAIN summary

\* (variant: dbTester.initialize() is awaited before the try block)
InnerCatchCoversTestsOnly(stage) == stage \in {"queries", "concurrent"}

\* try { initialize, testINR100Queries, testConcurrentLoad } catch (dbError)
\* finally { cleanup }: the stages of the database block the try covers
InnerCatchCovers(stage) == stage \in {"initialize", "queries", "concurrent"}

\* (variant: the scenario loop calls runScenario without try / catch)
SuiteCatchesTestsOnly(step) == step \in {"spikeTest", "enduranceTest"}

\* the steps of runComprehensiveSuite that sit in a try / catch
SuiteCatches(step) == step \in {"scenario", "spikeTest", "enduranceTest"}

\* runScenario throws: the outer catch logs and rethrows
FailScenario(r, error) ==
    [r EXCEPT !.scenarioFailed = TRUE, !.failed = @ \cup {r.scenarioName},
              !.error = error]

\* variant: the catch of main() logs the error and lets the process end
ExitsWithZero(outcome) == IF outcome = "raised" THEN 0 ELSE 0

\* main(): the catch around the command calls process.exit(1); a command that
\* returns lets the process end with status 0. -1 stands for a process that
\* has not ended.
ExitCode(outcome) == IF outcome = "raised" THEN 1 ELSE 0

\* the command ends
Raise(r, error) ==
    [r EXCEPT !.outcome = "raised", !.error = error,
              !.exitCode = ExitCode("raised")]
Return(r) == [r EXCEPT !.outcome = "returned", !.exitCode = ExitCode("returned")]

\* the batches testEndpoint can return for a scenario
BatchesOf(scenarioName) ==
    IF scenarioName \in DOMAIN ScenarioTable
    THEN [1..(ScenarioTable[scenarioName].concurrentUsers
                * ScenarioTable[scenarioName].requestsPerUser) -> RunnerOutcomes]
    ELSE {}

\* the batches of all scenarios
RunnerBatches == UNION {BatchesOf(name) : name \in DOMAIN ScenarioTable}

\* main(): the command `scenario <name>`
RunScenarioCommand(scenarioName, environment) ==
    /\ runPc = "idle"
    /\ run' = [NoRun EXCEPT !.command = "scenario",
                            !.environment = environment,
                            !.scenarioName = scenarioName,
                            !.started = <<scenarioName>>]
    /\ runPc' = "scenario"
    /\ UNCHANGED <<runnerResults, finalReport>>
    /\ UNCHANGED <<httpVars, reportVars, dbVars, calcVars, callerVars, monitorVars>>

\* main(): the command `comprehensive`; the suite calls its first scenario
RunComprehensiveSuite(environment) ==
    /\ runPc = "idle"
    /\ run' = [NoRun EXCEPT !.command = "comprehensive",
                            !.environment = environment,
                            !.idx = 1,
                            !.scenarioName = TestSequence[1],
                            !.started = <<TestSequence[1]>>]
    /\ runPc' = "scenario"
    /\ UNCHANGED <<runnerResults, finalReport>>
    /\ UNCHANGED <<httpVars, reportVars, dbVars, calcVars, callerVars, monitorVars>>

\* runScenario up to its first testEndpoint call
ScenarioStart ==
    /\ runPc = "scenario"
    /\ IF run.scenarioName \notin DOMAIN ScenarioTable
       THEN run' = FailScenario(run, "notFound") /\ runPc' = "scenarioEnd"
       ELSE IF run.environment \notin Environments
       THEN run' = FailScenario(run, "TypeError") /\ runPc' = "scenarioEnd"
       ELSE IF ~ScenarioTable[run.scenarioName].hasEndpoints
       THEN run' = FailScenario(run, "TypeError") /\ runPc' = "scenarioEnd"
       ELSE run' = [run EXCEPT !.endpoint = 1] /\ runPc' = "endpoints"
    /\ UNCHANGED <<runnerResults, finalReport>>
    /\ UNCHANGED <<httpVars, reportVars, dbVars, calcVars, callerVars, monitorVars>>

\* await tester.testEndpoint(...) resumes with the Result of a batch whose
\* requests ended with rs; the Result is recorded and the loop goes on
EndpointTested(rs) ==
    /\ runPc = "endpoints"
    /\ rs \in BatchesOf(run.scenarioName)
    /\ LET scenario == ScenarioTable[run.scenarioName]
           endpoint == scenario.endpoints[run.endpoint]
           b == [url |-> endpoint,
                 concurrentUsers |-> scenario.concurrentUsers,
                 requestsPerUser |-> scenario.requestsPerUser]
           result == EndpointResult(b, rs, TotalTime(rs))
       IN  /\ runnerResults' =
                [runnerResults EXCEPT
                    !.webTests = SetEntry(@, run.scenarioName, endpoint, result)]
           /\ IF run.endpoint < Len(scenario.endpoints)
              THEN run' = [run EXCEPT !.endpoint = @ + 1] /\ UNCHANGED runPc
              ELSE /\ run' = [run EXCEPT !.endpoint = 0]
                   /\ runPc' = IF scenario.databaseQueries THEN "dbInit" ELSE "save"
    /\ UNCHANGED finalReport
    /\ UNCHANGED <<httpVars, reportVars, dbVars, calcVars, callerVars, monitorVars>>

\* await dbTester.initialize() resumes or throws
DbInitialized(outcome) ==
    /\ runPc = "dbInit"
    /\ IF outcome = "connected"
       THEN run' = [run EXCEPT !.poolCreated = TRUE] /\ runPc' = "dbQueries"
       ELSE IF InnerCatchCovers("initialize")
       THEN /\ run' = [run EXCEPT !.dbInitFailed = TRUE,
                                  !.poolCreated = (outcome = "unreachable"),
                                  !.warnings = @ + 1]
            /\ runPc' = "dbCleanup"
       ELSE /\ run' = FailScenario([run EXCEPT !.dbInitFailed = TRUE], "database")
            /\ runPc' = "scenarioEnd"
    /\ UNCHANGED <<runnerResults, finalReport>>
    /\ UNCHANGED <<httpVars, reportVars, dbVars, calcVars, callerVars, monitorVars>>

\* await dbTester.testINR100Queries() resumes
DbQueriesDone ==
    /\ runPc = "dbQueries"
    /\ runnerResults' =
         [runnerResults EXCEPT
            !.databaseTests = SetEntry(@, run.scenarioName, "queries",
                                       [hasQueriesPerSecond |-> FALSE])]
    /\ runPc' = "dbConcurrent"
    /\ UNCHANGED <<run, finalReport>>
    /\ UNCHANGED <<httpVars, reportVars, dbVars, calcVars, callerVars, monitorVars>>

\* await dbTester.testConcurrentLoad(...) resumes; its queriesPerSecond is 0
\* when no query succeeded
DbConcurrentDone(anySucceeded) ==
    /\ runPc = "dbConcurrent"
    /\ runnerResults' =
         [runnerResults EXCEPT
            !.databaseTests = SetEntry(@, run.scenarioName, "concurrent",
                                       [hasQueriesPerSecond |-> anySucceeded])]
    /\ runPc' = "dbCleanup"
    /\ UNCHANGED <<run, finalReport>>
    /\ UNCHANGED <<httpVars, reportVars, dbVars, calcVars, callerVars, monitorVars>>

\* finally { await dbTester.cleanup() }
DbCleanedUp ==
    /\ runPc = "dbCleanup"
    /\ run' = [run EXCEPT !.cleanups = @ + 1, !.poolCreated = FALSE]
    /\ runPc' = "save"
    /\ UNCHANGED <<runnerResults, finalReport>>
    /\ UNCHANGED <<httpVars, reportVars, dbVars, calcVars, callerVars, monitorVars>>

\* saveScenarioResults writes the scenario file, or the write throws
SaveScenarioResults(written) ==
    /\ runPc = "save"
    /\ run' = IF written THEN [run EXCEPT !.saved = @ \cup {run.scenarioName}]
              ELSE FailScenario(run, "write")
    /\ runPc' = "scenarioEnd"
    /\ UNCHANGED <<runnerResults, finalReport>>
    /\ UNCHANGED <<httpVars, reportVars, dbVars, calcVars, callerVars, monitorVars>>

\* main() after runScenario: return, or catch and process.exit(1)
CommandAfterScenario ==
    /\ runPc = "scenarioEnd"
    /\ run.command = "scenario"
    /\ run' = IF run.scenarioFailed THEN Raise(run, run.error) ELSE Return(run)
    /\ runPc' = "done"
    /\ UNCHANGED <<runnerResults, finalReport>>
    /\ UNCHANGED <<httpVars, reportVars, dbVars, calcVars, callerVars, monitorVars>>

\* the next iteration of the scenario loop, or the spike test after it
StartNext(r) ==
    IF r.idx < Len(TestSequence)
    THEN [r EXCEPT !.idx = @ + 1,
                   !.scenarioName = TestSequence[r.idx + 1],
                   !.scenarioFailed = FALSE,
                   !.started = Append(@, TestSequence[r.idx + 1])]
    ELSE [r EXCEPT !.idx = 0, !.scenarioName = "", !.scenarioFailed = FALSE,
                   !.started = Append(@, "spikeTest")]

NextPc(r) == IF r.idx < Len(TestSequence) THEN "scenario" ELSE "spike"

\* runComprehensiveSuite after runScenario: the recovery wait, or the catch
SuiteAfterScenario ==
    /\ runPc = "scenarioEnd"
    /\ run.command = "comprehensive"
    /\ IF ~run.scenarioFailed
       THEN runPc' = "sleep" /\ UNCHANGED run
       ELSE IF SuiteCatches("scenario")
       THEN run' = StartNext(run) /\ runPc' = NextPc(run)
       ELSE run' = Raise(run, run.error) /\ runPc' = "done"
    /\ UNCHANGED <<runnerResults, finalReport>>
    /\ UNCHANGED <<httpVars, reportVars, dbVars, calcVars, callerVars, monitorVars>>

\* await this.sleep(30000) resumes
SleepOver ==
    /\ runPc = "sleep"
    /\ run' = StartNext(run)
    /\ runPc' = NextPc(run)
    /\ UNCHANGED <<runnerResults, finalReport>>
    /\ UNCHANGED <<httpVars, reportVars, dbVars, calcVars, callerVars, monitorVars>>

\* runSpikeTest from its call to its end: it records results.spikeTest, or
\* throws on an environment that is not configured
SpikeTestEnds ==
    /\ runPc = "spike"
    /\ IF run.environment \in Environments
       THEN /\ runnerResults' = [runnerResults EXCEPT !.spikeTest = "recorded"]
            /\ run' = [run EXCEPT !.started = Append(@, "enduranceTest")]
            /\ runPc' = "endurance"
       ELSE IF SuiteCatches("spikeTest")
       THEN /\ run' = [run EXCEPT !.failed = @ \cup {"spikeTest"},
                                  !.warnings = @ + 1,
                                  !.started = Append(@, "enduranceTest")]
            /\ runPc' = "endurance"
            /\ UNCHANGED runnerResults
       ELSE /\ run' = Raise(run, "TypeError")
            /\ runPc' = "done"
            /\ UNCHANGED runnerResults
    /\ UNCHANGED finalReport
    /\ UNCHANGED <<httpVars, reportVars, dbVars, calcVars, callerVars, monitorVars>>

\* runEnduranceTest from its call to its end, likewise
EnduranceTestEnds ==
    /\ runPc = "endurance"
    /\ IF run.environment \in Environments
       THEN /\ runnerResults' = [runnerResults EXCEPT !.enduranceTest = "recorded"]
            /\ run' = [run EXCEPT !.started = Append(@, "report")]
            /\ runPc' = "report"
       ELSE IF SuiteCatches("enduranceTest")
       THEN /\ run' = [run EXCEPT !.failed = @ \cup {"enduranceTest"},
                                  !.warnings = @ + 1,
                                  !.started = Append(@, "report")]
            /\ runPc' = "report"
            /\ UNCHANGED runnerResults
       ELSE /\ run' = Raise(run, "TypeError")
            /\ runPc' = "done"
            /\ UNCHANGED runnerResults
    /\ UNCHANGED finalReport
    /\ UNCHANGED <<httpVars, reportVars, dbVars, calcVars, callerVars, monitorVars>>

\* how the two file writes of generateComprehensiveReport end
ReportWrites == {"written", "jsonFails", "htmlFails"}

\* generateComprehensiveReport: build the report, write the JSON file, render
\* and write the HTML file, print the final summary
GenerateComprehensiveReport(writes) ==
    /\ runPc = "report"
    /\ LET rep == ComprehensiveReport(runnerResults, run.environment)
       IN  IF writes = "jsonFails"
           THEN run' = Raise(run, "write") /\ UNCHANGED finalReport
           ELSE /\ finalReport' = rep
                /\ run' = IF ~RendersSummary(rep.summary) THEN Raise(run, "TypeError")
                          ELSE IF writes = "htmlFails" THEN Raise(run, "write")
                          ELSE Return(run)
    /\ runPc' = "done"
    /\ UNCHANGED runnerResults
    /\ UNCHANGED <<httpVars, reportVars, dbVars, calcVars, callerVars, monitorVars>>

RunNext ==
    \/ \E scenarioName \in ScenarioArgs, environment \in EnvironmentArgs :
            RunScenarioCommand(scenarioName, environment)
    \/ \E environment \in EnvironmentArgs : RunComprehensiveSuite(environment)
    \/ ScenarioStart
    \/ \E rs \in RunnerBatches : EndpointTested(rs)
    \/ \E outcome \in InitializeOutcomes : DbInitialized(outcome)
    \/ DbQueriesDone
    \/ \E anySucceeded \in BOOLEAN : DbConcurrentDone(anySucceeded)
    \/ DbCleanedUp
    \/ \E written \in BOOLEAN : SaveScenarioResults(written)
    \/ CommandAfterScenario
    \/ SuiteAfterScenario
    \/ SleepOver
    \/ SpikeTestEnds
    \/ EnduranceTestEnds
    \/ \E writes \in ReportWrites : GenerateComprehensiveReport(writes)

(***************************************************************************)
(* LoadTestRunner: what it computes from the Results it has measured       *)
(***************************************************************************)
NoCalc == [fn |-> "none"]

CalcInit == calc = NoCalc

\* -x, Math.abs(x), x - y for JavaScript numbers
JsNeg(x) == IF x.k = "nan" THEN NaN ELSE [x EXCEPT !.n = -x.n]
JsAbs(x) == IF x.k = "nan" THEN NaN ELSE [x EXCEPT !.n = Abs(x.n)]
JsSub(x, y) == JsAdd(x, JsNeg(y))

\* x / y for JavaScript numbers (no negative zero: every measurement is >= 0)
JsQuot(x, y) ==
    IF x.k = "nan" \/ y.k = "nan" THEN NaN
    ELSE IF x.k = "inf"
    THEN (IF y.k = "inf" THEN NaN ELSE IF y.n < 0 THEN JsNeg(x) ELSE x)
    ELSE IF y.k = "inf" THEN Num(0)
    ELSE IF y.n = 0
    THEN (IF x.n = 0 THEN NaN ELSE IF x.n > 0 THEN PosInfinity ELSE NegInfinity)
    ELSE IF y.n > 0 THEN Rat(x.n * y.d, x.d * y.n)
    ELSE Rat(-(x.n * y.d), x.d * (-y.n))

\* x < y for JavaScript numbers: false when either is NaN
JsLess(x, y) ==
    IF x.k = "nan" \/ y.k = "nan" THEN FALSE
    ELSE IF x.k = "inf" THEN x.n < 0 /\ ~(y.k = "inf" /\ y.n < 0)
    ELSE IF y.k = "inf" THEN y.n > 0
    ELSE x.n * y.d < y.n * x.d

\* the fields of a Result that the runner reads
Measured(avgResponseTime, errorRate, minResponseTime, maxResponseTime) ==
    [avgResponseTime |-> avgResponseTime, errorRate |-> errorRate,
     minResponseTime |-> minResponseTime, maxResponseTime |-> maxResponseTime]

\* scenarios.spikeTest
SpikeConfig == [baseUsers |-> 10, spikeUsers |-> 200]

\* variant: the ratio of the user counts taken the other way round
InverseSpikeMultiplier(spikeConfig) ==
    JsDiv(spikeConfig.baseUsers, spikeConfig.spikeUsers)

\* spikeConfig.spikeUsers / spikeConfig.baseUsers
SpikeMultiplier(spikeConfig) ==
    JsDiv(spikeConfig.spikeUsers, spikeConfig.baseUsers)

\* variant: the spike passes on its error rate alone
SpikePassedOnErrorsOnly(baselineResult, spikeResult) ==
    JsLt(spikeResult.errorRate, 5)

\* spikeResult.errorRate < 5 &&
\*     spikeResult.avgResponseTime < baselineResult.avgResponseTime * 3
SpikePassed(baselineResult, spikeResult) ==
    /\ JsLt(spikeResult.errorRate, 5)
    /\ JsLess(spikeResult.avgResponseTime,
              JsTimes(baselineResult.avgResponseTime, 3))

\* variant: the verdict also asks for a recovery phase with few errors
SpikeTestResultsWithRecovery(baselineResult, spikeResult, recoveryResult) ==
    [baseline |-> baselineResult,
     spike |-> spikeResult,
     recovery |-> recoveryResult,
     spikeMultiplier |-> SpikeMultiplier(SpikeConfig),
     degradationRatio |->
        JsQuot(spikeResult.avgResponseTime, baselineResult.avgResponseTime),
     recoveryTime |-> "10 seconds (measured)",
     passed |-> /\ SpikePassed(baselineResult, spikeResult)
                /\ JsLess(recoveryResult.errorRate, Num(5))]

\* the spikeTestResults object of runSpikeTest
SpikeTestResults(baselineResult, spikeResult, recoveryResult) ==
    [baseline |-> baselineResult,
     spike |-> spikeResult,
     recovery |-> recoveryResult,
     spikeMultiplier |-> SpikeMultiplier(SpikeConfig),
     degradationRatio |->
        JsQuot(spikeResult.avgResponseTime, baselineResult.avgResponseTime),
     recoveryTime |-> "10 seconds (measured)",
     passed |-> SpikePassed(baselineResult, spikeResult)]

\* the Results the three phases of a spike test can come back with
BaselineResults ==
    {Measured(Num(avg), Num(0), Num(avg), Num(avg)) : avg \in {0, 100, 150}}
SpikeResults ==
    {Measured(Num(avg), Rat(err, 2), Num(avg), Num(avg)) :
        avg \in {0, 200, 299, 300, 400, 450, 600}, err \in {0, 9, 10, 11, 200}}
RecoveryResults ==
    {Measured(Num(avg), Num(err), Num(avg), Num(avg)) :
        avg \in {100, 900}, err \in {0, 100}}

\* runSpikeTest, once its three testEndpoint calls have returned
RunSpikeTest(baselineResult, spikeResult, recoveryResult) ==
    /\ calc = NoCalc
    /\ calc' = [fn |-> "runSpikeTest",
                input |-> <<baselineResult, spikeResult, recoveryResult>>,
                output |-> SpikeTestResults(baselineResult, spikeResult,
                                            recoveryResult)]
    /\ UNCHANGED <<httpVars, reportVars, dbVars, runVars, callerVars, monitorVars>>

\* the deduction for the error rate: > 1, else > 0.1
ErrorPenalty(errorRate) ==
    IF JsGt(errorRate, 1) THEN 20
    ELSE IF JsGt(JsTimes(errorRate, 10), 1) THEN 10
    ELSE 0

\* variant: half the deduction for a slow average
LatencyPenaltyHalved(avgResponseTime) ==
    IF JsGt(avgResponseTime, 1000) THEN 15
    ELSE IF JsGt(avgResponseTime, 500) THEN 15
    ELSE IF JsGt(avgResponseTime, 200) THEN 5
    ELSE 0

\* the deduction for the average response time
LatencyPenalty(avgResponseTime) ==
    IF JsGt(avgResponseTime, 1000) THEN 30
    ELSE IF JsGt(avgResponseTime, 500) THEN 15
    ELSE IF JsGt(avgResponseTime, 200) THEN 5
    ELSE 0

\* variant: the spread of the response times is not looked at
NoSpreadPenalty(variance) == IF JsGt(variance, 3000) THEN 0 ELSE 0

\* the deduction for variance = maxResponseTime - minResponseTime
SpreadPenalty(variance) ==
    IF JsGt(variance, 3000) THEN 20
    ELSE IF JsGt(variance, 1000) THEN 10
    ELSE 0

\* calculateStabilityScore(result)
CalculateStabilityScore(result) ==
    Max(0, 100 - ErrorPenalty(result.errorRate)
               - LatencyPenalty(result.avgResponseTime)
               - SpreadPenalty(JsSub(result.maxResponseTime,
                                     result.minResponseTime)))

\* "System Stable" of runEnduranceTest
SystemStable(stabilityScore) == stabilityScore > 80

\* the Results tester.enduranceTest can come back with: the fastest request
\* is 25 ms under the average, the slowest `spread` above the fastest
EnduranceResults ==
    {Measured(Num(avg), Rat(err, 10), Num(avg - 25), Num(avg - 25 + spread)) :
        avg \in {100, 200, 201, 500, 501, 1000, 1001, 1500},
        err \in {0, 1, 2, 10, 11, 20},
        spread \in {50, 1000, 1001, 3000, 3001}}

\* runEnduranceTest, once tester.enduranceTest has returned
RunEnduranceTest(result) ==
    /\ calc = NoCalc
    /\ calc' = [fn |-> "runEnduranceTest",
                input |-> result,
                output |->
                    [stabilityScore |-> CalculateStabilityScore(result),
                     stable |-> SystemStable(CalculateStabilityScore(result))]]
    /\ UNCHANGED <<httpVars, reportVars, dbVars, runVars, callerVars, monitorVars>>

\* xs.reduce((a, b) => a + b, 0) for JavaScript numbers
RECURSIVE JsSum(_)
JsSum(xs) == IF xs = <<>> THEN Num(0) ELSE JsAdd(Head(xs), JsSum(Tail(xs)))

\* xs.reduce((a, b) => a + b, 0) / xs.length
Average(xs) == JsQuot(JsSum(xs), Num(Len(xs)))

\* variant: the first half takes the middle sample
FirstHalfRoundedUp(length) == (length + 1) \div 2

\* Math.floor(responseTimes.length / 2)
FirstHalfLength(length) == length \div 2

\* analyzeStabilityTrend(results)
AnalyzeStabilityTrend(samples) ==
    LET responseTimes == [i \in DOMAIN samples |-> samples[i].avgResponseTime]
        half == FirstHalfLength(Len(responseTimes))
        firstHalf == SubSeq(responseTimes, 1, half)
        secondHalf == SubSeq(responseTimes, half + 1, Len(responseTimes))
        firstAvg == Average(firstHalf)
        secondAvg == Average(secondHalf)
        trend == JsQuot(JsSub(secondAvg, firstAvg), firstAvg)
    IN  IF JsLess(JsAbs(trend), Rat(1, 10)) THEN "stable"
        ELSE IF JsLess(Rat(1, 10), trend) THEN "degrading"
        ELSE "improving"

\* results.continuousMonitoring
ContinuousMonitoring(monitoringResults) ==
    [samples |-> Len(monitoringResults),
     averageResponseTime |->
        Average([i \in DOMAIN monitoringResults |->
                    monitoringResults[i].avgResponseTime]),
     averageErrorRate |->
        Average([i \in DOMAIN monitoringResults |->
                    monitoringResults[i].errorRate]),
     stabilityTrend |-> AnalyzeStabilityTrend(monitoringResults)]

\* the most samples a monitoring run takes
MaxMonitoringSamples == 4

\* the Results a probe can come back with
ProbeResults ==
    {Measured(Num(avg), Num(0), Num(avg), Num(avg)) :
        avg \in {0, 80, 100, 105, 110, 120}}

\* the lists of samples of a monitoring run
MonitoringRuns ==
    UNION {[1..n -> ProbeResults] : n \in 0..MaxMonitoringSamples}

\* runContinuousTest, once its sampling loop has ended
RunContinuousTest(monitoringResults) ==
    /\ calc = NoCalc
    /\ calc' = [fn |-> "runContinuousTest",
                input |-> monitoringResults,
                output |-> ContinuousMonitoring(monitoringResults)]
    /\ UNCHANGED <<httpVars, reportVars, dbVars, runVars, callerVars, monitorVars>>

\* the merged web summaries generateOverallSummary can arrive at
WebSummaries ==
    {[totalRequests |-> 100, successfulRequests |-> 100 - (err \div 10),
      avgResponseTime |-> Num(avg), errorRate |-> Rat(err, 10)] :
        avg \in {0, 499, 500, 501, 1000, 1001, 2000, 2001},
        err \in {0, 1, 2, 9, 10, 11, 50, 51}}

\* generateOverallSummary, from the merged web summary on: the grade and the
\* readiness verdict of its result
JudgeWebSummary(webSummary) ==
    /\ calc = NoCalc
    /\ calc' = [fn |-> "generateOverallSummary",
                input |-> webSummary,
                output |->
                    [overallGrade |-> CalculateOverallGrade(webSummary),
                     readiness |-> AssessProductionReadiness(webSummary)]]
    /\ UNCHANGED <<httpVars, reportVars, dbVars, runVars, callerVars, monitorVars>>

\* what testINR100Queries returns: an object keyed by query name, each value
\* the measurements of that query; the object itself has no avgQueryTime
NamedQueryResults(times) ==
    [kind |-> "queries",
     named |-> [i \in DOMAIN times |-> [avgQueryTime |-> Num(times[i])]]]

\* what testConcurrentLoad returns
ConcurrentLoadResult(time) ==
    [kind |-> "concurrent", avgQueryTime |-> Num(time)]

\* result.avgQueryTime
AvgQueryTime(result) ==
    IF result.kind = "concurrent" THEN result.avgQueryTime ELSE Undefined

\* a value in a condition: undefined, 0 and NaN are falsy
Truthy(x) == x.k = "inf" \/ (x.k = "num" /\ x.n # 0)

\* the recommendations pushed for one web Result
WebRecommendations(result) ==
    (IF JsGt(result.avgResponseTime, 1000)
     THEN <<[category |-> "Performance", priority |-> "High"]>> ELSE <<>>)
    \o (IF JsGt(result.errorRate, 1)
        THEN <<[category |-> "Reliability", priority |-> "High"]>> ELSE <<>>)

\* the recommendations pushed for one value of results.databaseTests
DatabaseRecommendations(result) ==
    IF Truthy(AvgQueryTime(result)) /\ JsGt(AvgQueryTime(result), 500)
    THEN <<[category |-> "Database", priority |-> "Medium"]>> ELSE <<>>

RECURSIVE ForEachWeb(_)
ForEachWeb(webResults) ==
    IF webResults = <<>> THEN <<>>
    ELSE WebRecommendations(Head(webResults)) \o ForEachWeb(Tail(webResults))

RECURSIVE ForEachDatabase(_)
ForEachDatabase(dbResults) ==
    IF dbResults = <<>> THEN <<>>
    ELSE DatabaseRecommendations(Head(dbResults))
            \o ForEachDatabase(Tail(dbResults))

\* generateOverallRecommendations
GenerateOverallRecommendations(rr) ==
    ForEachWeb(Values(rr.webTests)) \o ForEachDatabase(Values(rr.databaseTests))

\* results.webTests after up to two endpoint tests
RecordedWebTests ==
    LET Results == {Measured(Num(avg), Num(err), Num(avg), Num(avg)) :
                        avg \in {1000, 1001}, err \in {1, 2}}
    IN  {<<>>}
        \cup {SetEntry(<<>>, "lightLoad", "/api/health", r) : r \in Results}
        \cup {SetEntry(SetEntry(<<>>, "lightLoad", "/api/health", r1),
                       "moderateLoad", "/api/health", r2) :
                r1 \in Results, r2 \in Results}

\* results.databaseTests after the database tests of no scenario, or of one
\* scenario whose concurrent test did or did not come back
RecordedDatabaseTests ==
    LET Queries == {NamedQueryResults(times) :
                        times \in {<<400>>, <<600>>, <<600, 700>>}}
        Concurrent == {ConcurrentLoadResult(time) : time \in {500, 501}}
    IN  {<<>>}
        \cup {SetEntry(<<>>, "databaseLoad", "queries", q) : q \in Queries}
        \cup {SetEntry(SetEntry(<<>>, "databaseLoad", "queries", q),
                       "databaseLoad", "concurrent", c) :
                q \in Queries, c \in Concurrent}

\* generateComprehensiveReport: the recommendations of its report
ReportRecommendations(webTests, databaseTests) ==
    /\ calc = NoCalc
    /\ calc' = [fn |-> "generateOverallRecommendations",
                input |-> [webTests |-> webTests,
                           databaseTests |-> databaseTests],
                output |-> GenerateOverallRecommendations(
                              [webTests |-> webTests,
                               databaseTests |-> databaseTests])]
    /\ UNCHANGED <<httpVars, reportVars, dbVars, runVars, callerVars, monitorVars>>

\* a second run of runSpikeTest whose baseline and spike phases come back
\* with the Results of the run before; the earlier run is kept for comparison
RunSpikeTestAgain(recoveryResult) ==
    /\ calc # NoCalc
    /\ calc.fn = "runSpikeTest"
    /\ "prev" \notin DOMAIN calc
    /\ calc' = [fn |-> "runSpikeTest",
                input |-> <<calc.input[1], calc.input[2], recoveryResult>>,
                output |-> SpikeTestResults(calc.input[1], calc.input[2],
                                            recoveryResult),
                prev |-> [input |-> calc.input, output |-> calc.output]]
    /\ UNCHANGED <<httpVars, reportVars, dbVars, runVars, callerVars, monitorVars>>

CalcNext ==
    \/ \E baselineResult \in BaselineResults, spikeResult \in SpikeResults,
          recoveryResult \in RecoveryResults :
            RunSpikeTest(baselineResult, spikeResult, recoveryResult)
    \/ \E result \in EnduranceResults : RunEnduranceTest(result)
    \/ \E monitoringResults \in MonitoringRuns :
            RunContinuousTest(monitoringResults)
    \/ \E webSummary \in WebSummaries : JudgeWebSummary(webSummary)
    \/ \E webTests \in RecordedWebTests, databaseTests \in RecordedDatabaseTests :
            ReportRecommendations(webTests, databaseTests)
    \/ \E recoveryResult \in RecoveryResults : RunSpikeTestAgain(recoveryResult)

(***************************************************************************)
(* Functions that call testEndpoint in a row                               *)
(***************************************************************************)
\* caller.pc: "idle", "call" (about to run its next step), "awaiting" (in
\* `await testEndpoint(...)`), "done"; caller.log: the owners of the steps
\* begun so far; caller.calls: the testEndpoint calls and sleeps begun so far;
\* caller.returns: the Results the calls have returned, each with the users of
\* its call, held by the function that is running (runScenario, runSpikeTest
\* and stressTest each start with none); caller.recorded: the function has
\* stored or returned its result
NoCaller ==
    [program |-> "none", steps |-> <<>>, next |-> 0, pc |-> "idle", log |-> <<>>,
     calls |-> <<>>, returns |-> <<>>, recorded |-> FALSE]

CallerInit == caller = NoCaller

\* `${baseUrl}${endpoint}`
UrlOf(endpoint) == IF endpoint = "/api/health" THEN "http://h/a" ELSE "http://h/b"

\* one testEndpoint call of a caller
Call(owner, endpoint, concurrentUsers, requestsPerUser, delay, newTester) ==
    [kind |-> "testEndpoint", owner |-> owner, url |-> UrlOf(endpoint),
     concurrentUsers |-> concurrentUsers, requestsPerUser |-> requestsPerUser,
     delayBetweenRequests |-> delay, newTester |-> newTester]

\* await this.sleep(...), and generateComprehensiveReport
Pause(owner) ==
    [kind |-> "sleep", owner |-> owner, url |-> "", concurrentUsers |-> 0,
     requestsPerUser |-> 0, delayBetweenRequests |-> 0, newTester |-> FALSE]
ReportStep ==
    [kind |-> "report", owner |-> "report", url |-> "", concurrentUsers |-> 0,
     requestsPerUser |-> 0, delayBetweenRequests |-> 0, newTester |-> FALSE]

\* runScenario: a new LoadTester, then one call per endpoint
ScenarioCalls(scenarioName) ==
    LET scenario == ScenarioTable[scenarioName]
    IN  [i \in DOMAIN scenario.endpoints |->
            Call(scenarioName, scenario.endpoints[i], scenario.concurrentUsers,
                 scenario.requestsPerUser,
                 IF scenario.delayBetweenRequests # 0
                 THEN scenario.delayBetweenRequests ELSE 100,
                 i = 1)]

\* scenarios.spikeTest and the requests per user of the phases, scaled down
\* from 10 and 200 users and from 5 and 3 requests
ScaledSpikeConfig ==
    [baseUsers |-> 1, spikeUsers |-> 2, baseRequests |-> 1, spikeRequests |-> 1]

\* variant: the recovery phase is measured under the spike load
SpikePhaseRecoveryUnderSpike(phase, spikeConfig) ==
    IF phase = "baseline"
    THEN Call("spikeTest", "/api/health", spikeConfig.baseUsers,
              spikeConfig.baseRequests, 100, TRUE)
    ELSE Call("spikeTest", "/api/health", spikeConfig.spikeUsers,
              spikeConfig.spikeRequests, 10, FALSE)

\* the testEndpoint call of a phase of runSpikeTest: baseline and recovery
\* with baseUsers and a delay of 100 ms, spike with spikeUsers and 10 ms
SpikePhase(phase, spikeConfig) ==
    IF phase = "baseline"
    THEN Call("spikeTest", "/api/health", spikeConfig.baseUsers,
              spikeConfig.baseRequests, 100, TRUE)
    ELSE IF phase = "spike"
    THEN Call("spikeTest", "/api/health", spikeConfig.spikeUsers,
              spikeConfig.spikeRequests, 10, FALSE)
    ELSE Call("spikeTest", "/api/health", spikeConfig.baseUsers,
              spikeConfig.baseRequests, 100, FALSE)

\* runSpikeTest: baseline, spike, the recovery pause, recovery
SpikeCalls ==
    <<SpikePhase("baseline", ScaledSpikeConfig),
      SpikePhase("spike", ScaledSpikeConfig),
      Pause("spikeTest"),
      SpikePhase("recovery", ScaledSpikeConfig)>>

\* runEnduranceTest: tester.enduranceTest makes one testEndpoint call of
\* `users` users and Math.ceil(durationMinutes * 60 / users) requests each,
\* here one second for one user, with a delay of
\* Math.max(100, durationMinutes * 60 * 1000 / (users * requestsPerUser))
EnduranceCalls ==
    <<Call("enduranceTest", "/api/health", 1, Ceil(1, 1), 1000, TRUE)>>

\* stressTest(baseUrl, startUsers, maxUsers, step, requestsPerStep)
StressArgs ==
    [startUsers |-> 1, maxUsers |-> 2, step |-> 1, requestsPerStep |-> 2]

\* the load levels of stressTest from `users` on, while none breaks
RECURSIVE StressCalls(_, _)
StressCalls(users, args) ==
    IF users > args.maxUsers THEN <<>>
    ELSE <<Call("stressTest", "/api/health", users,
                Ceil(args.requestsPerStep, users), 50, FALSE)>>
         \o StressCalls(users + args.step, args)

\* variant: only a slow average ends the test
BreakingOnLatencyOnly(result) ==
    /\ result # NoResult
    /\ JsGt(result.avgResponseTime, 5000)

\* result.errorRate > 10 || result.avgResponseTime > 5000; a value without
\* these fields compares false
Breaking(result) ==
    /\ result # NoResult
    /\ (JsGt(result.errorRate, 10) \/ JsGt(result.avgResponseTime, 5000))

\* runComprehensiveSuite: the scenarios, each followed by its recovery wait,
\* the spike test, the endurance test, the report
SuiteCalls ==
    ScenarioCalls(TestSequence[1]) \o <<Pause(TestSequence[1])>>
    \o ScenarioCalls(TestSequence[2]) \o <<Pause(TestSequence[2])>>
    \o ScenarioCalls(TestSequence[3]) \o <<Pause(TestSequence[3])>>
    \o SpikeCalls \o EnduranceCalls \o <<ReportStep>>

CallerPrograms ==
    {"lightLoad", "moderateLoad", "heavyLoad", "runSpikeTest",
     "runEnduranceTest", "stressTest", "runComprehensiveSuite"}

StepsOf(program) ==
    CASE program = "runSpikeTest" -> SpikeCalls
      [] program = "runEnduranceTest" -> EnduranceCalls
      [] program = "stressTest" -> StressCalls(StressArgs.startUsers, StressArgs)
      [] program = "runComprehensiveSuite" -> SuiteCalls
      [] OTHER -> ScenarioCalls(program)

\* variant: the call is not awaited
ResumesAtOnce(testerPc) == testerPc \in {"idle", "awaiting"}

\* await tester.testEndpoint(...): the caller resumes when the call has
\* returned
AwaitResumes(testerPc) == testerPc = "idle"

\* the function is called
CallerStarts(program) ==
    /\ caller = NoCaller
    /\ caller' = [NoCaller EXCEPT !.program = program,
                                   !.steps = StepsOf(program),
                                   !.next = 1, !.pc = "call"]
    /\ UNCHANGED <<httpVars, reportVars, dbVars, runVars, calcVars, monitorVars>>

\* the caller's next step is a testEndpoint call: every request of the batch
\* is issued, then the call suspends in Promise.all and the caller in await
CallTestEndpoint ==
    /\ caller.pc = "call"
    /\ LET step == caller.steps[caller.next]
       IN  /\ step.kind = "testEndpoint"
           /\ batch' = [url |-> step.url,
                        concurrentUsers |-> step.concurrentUsers,
                        requestsPerUser |-> step.requestsPerUser]
           /\ promises' = LaunchAll(step.url, step.concurrentUsers,
                                    step.requestsPerUser)
           /\ results' = IF step.newTester THEN InitialResults ELSE results
           /\ nBatches' = nBatches + 1
           /\ nRequests' = nRequests + step.concurrentUsers * step.requestsPerUser
           /\ caller' = [caller EXCEPT !.pc = "awaiting",
                                       !.log = Append(@, step.owner),
                                       !.calls = Append(@, step),
                                       !.returns = IF step.newTester
                                                   THEN <<>> ELSE @]
    /\ pc' = "awaiting"
    /\ UNCHANGED <<returned, target>>
    /\ UNCHANGED <<reportVars, dbVars, runVars, calcVars, monitorVars>>

\* the step after the last one, or after a breaking load level
AfterStep(c, broke) ==
    IF broke \/ c.next = Len(c.steps)
    THEN [c EXCEPT !.pc = "done", !.recorded = TRUE]
    ELSE [c EXCEPT !.pc = "call", !.next = @ + 1]

\* the await resumes with the Result of the call
AwaitReturns ==
    /\ caller.pc = "awaiting"
    /\ AwaitResumes(pc)
    /\ caller' = AfterStep(
            [caller EXCEPT !.returns =
                Append(@, [users |-> caller.steps[caller.next].concurrentUsers,
                           result |-> returned])],
            caller.program = "stressTest" /\ Breaking(returned))
    /\ UNCHANGED <<httpVars, reportVars, dbVars, runVars, calcVars, monitorVars>>

\* the caller's next step is a sleep, or the report at the end of the suite
PassStep ==
    /\ caller.pc = "call"
    /\ LET step == caller.steps[caller.next]
       IN  /\ step.kind \in {"sleep", "report"}
           /\ caller' = AfterStep(
                    [caller EXCEPT !.log = IF step.kind = "report"
                                           THEN Append(@, step.owner) ELSE @,
                                   !.calls = IF step.kind = "sleep"
                                             THEN Append(@, step) ELSE @],
                    FALSE)
    /\ UNCHANGED <<httpVars, reportVars, dbVars, runVars, calcVars, monitorVars>>

CallerNext ==
    \/ \E program \in CallerPrograms : CallerStarts(program)
    \/ CallTestEndpoint
    \/ \E i \in DOMAIN promises, statusCode \in StatusCodes,
          responseTime \in Latencies : Respond(i, statusCode, responseTime)
    \/ \E i \in DOMAIN promises, responseTime \in Latencies :
            RequestError(i, responseTime)
    \/ \E i \in DOMAIN promises : TimerFires(i)
    \/ Aggregate
    \/ AwaitReturns
    \/ PassStep

(***************************************************************************)
(* LoadTestRunner.runContinuousTest                                        *)
(***************************************************************************)
\* Time is counted in ticks of the clock that Date.now() reads. The longest
\* duration explored, durationMinutes * 60 * 1000 in ticks:
MaxDuration == 4
Durations == 0..MaxDuration

\* await this.sleep(120000), scaled to ticks
SamplingInterval == 2

\* The clock may advance while synchronous code runs: by no tick, or by one.
SyncTicks == {0, 1}
\* what a probe takes, and what a timer fires late
ProbeTicks == {0, 1, 3}
LateTicks == {0, 1}

\* the Results a probe can come back with
MonitorProbeResults ==
    {Measured(Num(avg), Num(0), Num(avg), Num(avg)) : avg \in {100, 120}}

\* monitor.pc: "idle", "test" (at the loop test), "probing" (in `await
\* tester.testEndpoint`), "sleeping" (in `await this.sleep`), "done";
\* monitor.now: the clock; monitor.started: for every probe, its call and
\* the clock at the loop test it was started from; monitor.samples:
\* monitoringResults, each sample with the clock at its push
NoMonitor ==
    [pc |-> "idle", now |-> 0, duration |-> 0, startTime |-> 0, endTime |-> 0,
     firstTest |-> 0, started |-> <<>>, samples |-> <<>>,
     continuousMonitoring |-> NoResult]

MonitorInit == monitor = NoMonitor

\* tester.testEndpoint(`${baseUrl}/api/health`, 5, 2, 100)
ProbeCall(first) == Call("continuousMonitoring", "/api/health", 5, 2, 100, first)

\* variant: the probe that begins when the duration has just elapsed is run
LoopContinuesAtEnd(now, endTime) == now <= endTime

\* while (Date.now() < endTime)
LoopContinues(now, endTime) == now < endTime

\* runContinuousTest is called: startTime and endTime are computed, and the
\* function goes on to its first loop test while the clock runs
StartContinuousTest(duration, ticks) ==
    /\ monitor = NoMonitor
    /\ monitor' = [monitor EXCEPT !.pc = "test",
                                  !.duration = duration,
                                  !.startTime = monitor.now,
                                  !.endTime = monitor.now + duration,
                                  !.now = @ + ticks,
                                  !.firstTest = monitor.now + ticks]
    /\ UNCHANGED <<httpVars, reportVars, dbVars, runVars, calcVars, callerVars>>

\* the loop test: the next probe is started, or the loop ends and
\* results.continuousMonitoring is set; its averages and its trend are those
\* of ContinuousMonitoring(monitoringResults), evaluated in RunContinuousTest
LoopTest ==
    /\ monitor.pc = "test"
    /\ IF LoopContinues(monitor.now, monitor.endTime)
       THEN monitor' =
                [monitor EXCEPT
                    !.pc = "probing",
                    !.started = Append(@, [call |-> ProbeCall(@ = <<>>),
                                           at |-> monitor.now])]
       ELSE monitor' =
                [monitor EXCEPT
                    !.pc = "done",
                    !.continuousMonitoring =
                        [durationMinutes |-> monitor.duration,
                         samples |-> Len(monitor.samples)]]
    /\ UNCHANGED <<httpVars, reportVars, dbVars, runVars, calcVars, callerVars>>

\* the probe returns after `ticks`: its Result is pushed with a timestamp and
\* the sleep begins
ProbeReturns(result, ticks) ==
    /\ monitor.pc = "probing"
    /\ monitor' = [monitor EXCEPT
                    !.pc = "sleeping",
                    !.now = @ + ticks,
                    !.samples = Append(@, [timestamp |-> monitor.now + ticks,
                                           result |-> result])]
    /\ UNCHANGED <<httpVars, reportVars, dbVars, runVars, calcVars, callerVars>>

\* the timer of sleep(120000) fires, on time or late
SleepEnds(late) ==
    /\ monitor.pc = "sleeping"
    /\ monitor' = [monitor EXCEPT !.pc = "test",
                                  !.now = @ + SamplingInterval + late]
    /\ UNCHANGED <<httpVars, reportVars, dbVars, runVars, calcVars, callerVars>>

MonitorNext ==
    \/ \E duration \in Durations, ticks \in SyncTicks :
            StartContinuousTest(duration, ticks)
    \/ LoopTest
    \/ \E result \in MonitorProbeResults, ticks \in ProbeTicks :
            ProbeReturns(result, ticks)
    \/ \E late \in LateTicks : SleepEnds(late)

(***************************************************************************)
(* Specifications                                                          *)
(***************************************************************************)
\* the LoadTester alone
Init ==
    /\ HttpInit /\ ReportInit /\ DbInit /\ dbMode = "healthy" /\ RunInit
    /\ CalcInit /\ CallerInit /\ MonitorInit
Next == HttpNext
Spec == Init /\ [][Next]_vars

\* The service answers every request it is up for; the event loop runs every
\* callback that is ready.
FairSpec ==
    /\ Spec
    /\ WF_vars(\E i \in DOMAIN promises, st \in StatusCodes, rt \in Latencies :
                    Respond(i, st, rt))
    /\ WF_vars(\E i \in DOMAIN promises : TimerFires(i))
    /\ WF_vars(Aggregate)

\* the DatabaseLoadTester alone
InitDb ==
    /\ HttpInit /\ target = "up" /\ ReportInit /\ DbInit /\ RunInit
    /\ CalcInit /\ CallerInit /\ MonitorInit
NextDb == DbNext
SpecDb == InitDb /\ [][NextDb]_vars

\* A healthy database completes every query; the pool hands out every
\* connection it has reserved; the event loop runs every callback.
FairSpecDb ==
    /\ SpecDb
    /\ WF_vars(\E c \in DOMAIN calls : Grant(c))
    /\ WF_vars(\E c \in DOMAIN calls, ok \in BOOLEAN : QueryDone(c, ok))
    /\ WF_vars(PoolTestReturn)
    /\ WF_vars(InrNext)
    /\ WF_vars(\E timeUp \in BOOLEAN : LoadIterate(timeUp))
    /\ WF_vars(LoadReturn)

\* one LoadTester, its batches taken whole, and its reports
InitReport == Init /\ target = "up"
NextReport == ReportNext
SpecReport == InitReport /\ [][NextReport]_vars

\* one command of the LoadTestRunner
InitRun == Init /\ target = "up"
NextRun == RunNext
SpecRun == InitRun /\ [][NextRun]_vars

\* the runner's computations, each applied to measurements it can be given
InitCalc == Init /\ target = "up"
NextCalc == CalcNext
SpecCalc == InitCalc /\ [][NextCalc]_vars

\* one function that calls testEndpoint in a row, and the LoadTester it calls
InitCaller == Init /\ target = "up"
NextCaller == CallerNext
SpecCaller == InitCaller /\ [][NextCaller]_vars

\* stressTest alone, and the LoadTester it runs on
InitStress == InitCaller
NextStress ==
    \/ CallerStarts("stressTest")
    \/ CallTestEndpoint
    \/ \E i \in DOMAIN promises, statusCode \in StatusCodes,
          responseTime \in Latencies : Respond(i, statusCode, responseTime)
    \/ \E i \in DOMAIN promises, responseTime \in Latencies :
            RequestError(i, responseTime)
    \/ \E i \in DOMAIN promises : TimerFires(i)
    \/ Aggregate
    \/ AwaitReturns
SpecStress == InitStress /\ [][NextStress]_vars

\* The service answers every request; the event loop runs every callback that
\* is ready, so a function that can resume does.
FairSpecStress ==
    /\ SpecStress
    /\ WF_vars(\E i \in DOMAIN promises, st \in StatusCodes, rt \in Latencies :
                    Respond(i, st, rt))
    /\ WF_vars(Aggregate)
    /\ WF_vars(CallTestEndpoint)
    /\ WF_vars(AwaitReturns)

\* runContinuousTest on its own clock
InitMonitor == Init /\ target = "up"
NextMonitor == MonitorNext
SpecMonitor == InitMonitor /\ [][NextMonitor]_vars

\* Time goes on: every probe returns and every timer fires; the event loop
\* runs the function when it can go on.
FairSpecMonitor ==
    /\ SpecMonitor
    /\ WF_vars(LoopTest)
    /\ WF_vars(\E result \in MonitorProbeResults, ticks \in ProbeTicks :
                    ProbeReturns(result, ticks))
    /\ WF_vars(\E late \in LateTicks : SleepEnds(late))

(***************************************************************************)
(* Properties of LoadTester                                                *)
(***************************************************************************)
\* C1: within one user of testEndpoint a request is issued only after the
\* user's previous request has completed and the delay after it has elapsed.
\* Every promise of the array has had its request issued.
C1_SequentialWithinActor ==
    \A i, j \in DOMAIN promises :
        (promises[j].user = promises[i].user
            /\ promises[j].request = promises[i].request + 1)
        => (promises[i].state = "resolved" /\ promises[i].timer = "elapsed")

\* C2: testEndpoint is a barrier: the accumulator changes and a Result is
\* returned only in a step taken when every one of the
\* concurrentUsers x requestsPerUser requests of the batch has completed.
C2_Barrier ==
    [][(results' # results \/ returned' # returned)
        => /\ pc = "awaiting"
           /\ Len(promises) = batch.concurrentUsers * batch.requestsPerUser
           /\ \A i \in DOMAIN promises : promises[i].state = "resolved"
           /\ returned'.totalRequests = Len(promises)]_vars

\* a batch of two or more requests has returned into a non-empty accumulator
C2_Witness ==
    /\ pc = "idle"
    /\ returned # NoResult
    /\ returned.totalRequests >= 2
    /\ Len(results.detailed) >= 2

AllResults == {returned} \cup {results.endpoints[u] : u \in DOMAIN results.endpoints}

\* C3: every Result of testEndpoint has
\* totalRequests = concurrentUsers * requestsPerUser and
\* successfulRequests + failedRequests = totalRequests.
C3_Counts ==
    \A r \in AllResults \ {NoResult} :
        /\ r.totalRequests = r.concurrentUsers * r.requestsPerUser
        /\ r.successfulRequests + r.failedRequests = r.totalRequests

\* a Result that mixes a success, an error status and a network error
C3_Witness ==
    /\ returned # NoResult
    /\ returned.successfulRequests >= 1
    /\ returned.failedRequests >= 1
    /\ \E i \in DOMAIN results.detailed :
            ~results.detailed[i].success /\ results.detailed[i].statusCode >= 400

\* C5: the error rate of a Result is 100 * failed / total when total > 0 and
\* 0 when total = 0.
C5_ErrorRate ==
    returned # NoResult =>
        returned.errorRate =
            IF returned.totalRequests > 0
            THEN Rat(100 * returned.failedRequests, returned.totalRequests)
            ELSE Num(0)

\* C6: makeRequest never rejects, whatever the target string, so no call of
\* it takes the batch (or the process) down; a response has
\* success = (statusCode < 400) and a failed request has success = false.
C6_MakeRequestNeverRejects ==
    /\ pc # "crashed"
    /\ \A i \in DOMAIN promises :
        /\ promises[i].state # "rejected"
        /\ promises[i].state = "resolved" =>
             promises[i].outcome.success =
                (promises[i].outcome.error = "" /\ promises[i].outcome.statusCode < 400)

\* C7: every call of makeRequest is bounded by a timeout, so a batch whose
\* requests were all issued eventually returns, even when the target never
\* answers.
C7_EveryBatchReturns ==
    (pc = "awaiting" /\ \A i \in DOMAIN promises : promises[i].state = "inflight")
        ~> (pc = "idle")

(***************************************************************************)
(* Properties of DatabaseLoadTester                                        *)
(***************************************************************************)
\* C4: every per-query entry of testINR100Queries has
\* successful + failed = runs.
C4_QueryCounts ==
    dbReturned.kind = "inr" =>
        \A q \in DOMAIN dbReturned.queryResults :
            dbReturned.queryResults[q].successful + dbReturned.queryResults[q].failed
                = dbReturned.queryResults[q].runs

\* C8: executeQuery never throws: a failed acquisition or a failed query ends
\* the call with a failed outcome (success = false, error set), no batch is
\* aborted, testConnectionPool counts every query it started and
\* testConcurrentLoad every query it collected.
C8_ExecuteQueryNeverThrows ==
    /\ dbTest.kind # "aborted"
    /\ dbReturned.kind # "rejected"
    /\ \A c \in DOMAIN calls :
        /\ calls[c].pc # "threw"
        /\ (calls[c].pc = "returned" /\ ~calls[c].connection)
             => (~calls[c].outcome.success /\ calls[c].outcome.error # "null")
    /\ dbReturned.kind = "pool" =>
        /\ dbReturned.totalQueries =
             dbReturned.concurrentConnections * dbReturned.queriesPerConnection
        /\ dbReturned.successfulQueries + dbReturned.failedQueries
             = dbReturned.totalQueries
    /\ dbReturned.kind = "load" =>
        dbReturned.successfulQueries + dbReturned.failedQueries
            = dbReturned.totalQueries

\* in one testConnectionPool batch a call failed to acquire a connection,
\* another query failed, and a third succeeded
C8_Witness ==
    /\ dbTest.kind = "pool"
    /\ \A c \in DOMAIN calls : calls[c].pc = "returned"
    /\ \E c \in DOMAIN calls : ~calls[c].connection /\ ~calls[c].outcome.success
    /\ \E c \in DOMAIN calls : calls[c].connection /\ ~calls[c].outcome.success
    /\ \E c \in DOMAIN calls : calls[c].outcome.success

CheckedOut ==
    {c \in DOMAIN calls :
        calls[c].pc = "executing" \/ (calls[c].pc = "acquiring" /\ calls[c].slot)}

\* C9: a connection executeQuery acquired is released exactly once on every
\* exit path, nothing is released when the acquisition failed, the checked-out
\* connections never exceed connectionLimit, and none is checked out once
\* every call has returned.
C9_ReleasedExactlyOnce ==
    /\ inUse \in 0..ConnectionLimit
    /\ Cardinality(CheckedOut) = inUse
    /\ \A c \in DOMAIN calls :
        calls[c].released =
            IF calls[c].pc = "returned" /\ calls[c].connection THEN 1 ELSE 0
    /\ (\A c \in DOMAIN calls : calls[c].pc = "returned")
        => (inUse = 0 /\ connQueue = <<>>)

\* a query failed on a connection that was released, and another call of the
\* batch never got a connection
C9_Witness ==
    /\ \E c \in DOMAIN calls :
        /\ calls[c].pc = "returned" /\ calls[c].connection
        /\ ~calls[c].outcome.success /\ calls[c].released = 1
    /\ \E c \in DOMAIN calls :
        /\ calls[c].pc = "returned" /\ ~calls[c].connection
        /\ calls[c].released = 0
    /\ \A c \in DOMAIN calls : calls[c].pc = "returned"
    /\ inUse = 0

\* C10: with a healthy database and more concurrent executeQuery calls than
\* the pool has connections, every call eventually gets a connection and
\* completes successfully.
C10_AllEventuallySucceed ==
    (/\ dbTest.kind = "pool" /\ dbMode = "healthy" /\ pool = "ready"
     /\ dbTest.total > ConnectionLimit)
    ~> (/\ dbTest.kind = "pool"
        /\ Len(calls) = dbTest.total
        /\ \A c \in DOMAIN calls :
            calls[c].pc = "returned" /\ calls[c].outcome.success)

\* more calls than connections, all of them returned successfully
C10_Witness ==
    /\ dbTest.kind = "pool" /\ dbMode = "healthy"
    /\ Len(calls) > ConnectionLimit
    /\ \A c \in DOMAIN calls :
        calls[c].pc = "returned" /\ calls[c].outcome.success /\ calls[c].released = 1

(***************************************************************************)
(* Properties of LoadTester.generateReport                                 *)
(***************************************************************************)
\* the percentiles analyzePerformance reports
Percentiles == {50, 90, 95, 99}

\* the field of the performance object that holds percentile p
ReportedPercentile(performance, p) ==
    IF p = 50 THEN performance.p50
    ELSE IF p = 90 THEN performance.p90
    ELSE IF p = 95 THEN performance.p95
    ELSE performance.p99

\* C11: for a non-empty ascending list of n latencies and p in {50, 90, 95,
\* 99} the percentile is the element at index ceil(p/100 * n) - 1 clamped to
\* [0, n-1], an index inside the list; for the latencies 1..100 it is p50 = 50
\* and p99 = 99.
C11_CeilIndex ==
    /\ (report # NoReport /\ results.detailed # <<>>) =>
        LET sorted == SortAsc(ResponseTimes(results.detailed))
            n == Len(sorted)
        IN  \A p \in Percentiles :
                LET raw == ((p * n + 99) \div 100) - 1
                    index == IF raw < 0 THEN 0 ELSE IF raw > n - 1 THEN n - 1 ELSE raw
                IN  /\ index \in 0..(n - 1)
                    /\ ReportedPercentile(report.performance, p) = Num(sorted[index + 1])
    /\ Percentile([i \in 1..100 |-> i], 50) = Num(50)
    /\ Percentile([i \in 1..100 |-> i], 99) = Num(99)

\* a report over three outcomes that arrived out of order, whose median is
\* below its 90th percentile
C11_Witness ==
    /\ report # NoReport
    /\ Len(results.detailed) = 3
    /\ results.detailed[1].responseTime > results.detailed[3].responseTime
    /\ report.performance.p50 # report.performance.p90
    /\ report.performance.p50 # Num(results.detailed[1].responseTime)

\* C12: for every non-empty accumulated outcome set the percentiles satisfy
\* p50 <= p90 <= p95 <= p99 and each lies between the minimum and the maximum
\* recorded latency.
C12_Monotone ==
    (report # NoReport /\ results.detailed # <<>>) =>
        /\ \A p \in Percentiles :
            /\ ReportedPercentile(report.performance, p).k = "num"
            /\ ReportedPercentile(report.performance, p).d = 1
        /\ \A p, q \in Percentiles :
            p <= q => ReportedPercentile(report.performance, p).n
                        <= ReportedPercentile(report.performance, q).n
        /\ \A p \in Percentiles :
            /\ report.summary.minResponseTime.n
                 <= ReportedPercentile(report.performance, p).n
            /\ ReportedPercentile(report.performance, p).n
                 <= report.summary.maxResponseTime.n

\* a report over outcomes from two batches, the slowest first, with
\* min < p50 < p99 = max
C12_Witness ==
    /\ report # NoReport
    /\ nBatches = 2
    /\ Len(results.detailed) = 3
    /\ results.detailed[1].responseTime > results.detailed[2].responseTime
    /\ report.summary.minResponseTime.n < report.performance.p50.n
    /\ report.performance.p50.n < report.performance.p99.n
    /\ report.performance.p99 = report.summary.maxResponseTime

\* C13: generateReport leaves results.summary, results.detailed (and its
\* order) and results.endpoints unchanged, and a second call on the same
\* accumulated outcomes yields the same summary counts, error rate, min, max
\* and average latency and percentiles as the first.
C13_Idempotent ==
    [][nReports' = nReports + 1 =>
        /\ results' = results
        /\ nReports >= 1 =>
            /\ report'.summary = report.summary
            /\ report'.performance = report.performance
            /\ report'.endpoints = report.endpoints]_vars

\* two reports were made over outcomes that are not in ascending order
C13_Witness ==
    /\ nReports = 2
    /\ report # NoReport
    /\ Len(results.detailed) >= 2
    /\ results.detailed[1].responseTime > results.detailed[2].responseTime
    /\ results.summary.failedRequests >= 1

\* C14: on an empty outcome set generateReport, analyzePerformance and
\* percentile return, and every metric they report is zero or undefined (NaN,
\* the undefined number, included).
C14_EmptyReportZeroOrUndefined ==
    (report # NoReport /\ results.detailed = <<>>) =>
        \A x \in {report.performance.p50, report.performance.p90,
                  report.performance.p95, report.performance.p99,
                  report.summary.avgResponseTime, report.summary.maxResponseTime,
                  report.summary.minResponseTime, report.summary.requestsPerSecond,
                  report.summary.errorRate} :
            x.k \in {"undefined", "nan"} \/ (x.k = "num" /\ x.n = 0)

\* C15: the throughput of a Result and of a report is
\* totalRequests / (elapsedMs / 1000) when the elapsed time is positive, and
\* is neither infinity nor NaN when the elapsed time is 0.
C15_ThroughputGuarded ==
    LET measured ==
            (IF returned # NoResult
             THEN {<<returned.totalRequests, returned.totalTime,
                     returned.requestsPerSecond>>}
             ELSE {})
            \cup
            (IF report # NoReport
             THEN {<<report.summary.totalRequests, report.summary.totalTime,
                     report.summary.requestsPerSecond>>}
             ELSE {})
    IN  \A m \in measured :
            IF m[2] > 0 THEN m[3] = Rat(m[1] * 1000, m[2])
            ELSE m[3].k \notin {"inf", "nan"}

(***************************************************************************)
(* Properties of LoadTestRunner                                            *)
(***************************************************************************)
\* C16: generateOverallSummary merges the web Results: totalRequests and
\* successfulRequests are the sums over the Results, avgResponseTime and
\* errorRate are the arithmetic means of the per-Result values, each Result
\* weighing the same.
C16_UnweightedMeans ==
    (finalReport # NoReport /\ finalReport.webApplicationTests # <<>>) =>
        LET rs == Values(finalReport.webApplicationTests)
            k == Len(rs)
            web == finalReport.summary.webApplication
            total[i \in 0..k] ==
                IF i = 0 THEN 0 ELSE total[i - 1] + rs[i].totalRequests
            successful[i \in 0..k] ==
                IF i = 0 THEN 0 ELSE successful[i - 1] + rs[i].successfulRequests
            latency[i \in 0..k] ==
                IF i = 0 THEN Num(0) ELSE JsAdd(latency[i - 1], rs[i].avgResponseTime)
            errors[i \in 0..k] ==
                IF i = 0 THEN Num(0) ELSE JsAdd(errors[i - 1], rs[i].errorRate)
        IN  /\ web.totalRequests = total[k]
            /\ web.successfulRequests = successful[k]
            /\ web.avgResponseTime = JsOver(latency[k], k)
            /\ web.errorRate = JsOver(errors[k], k)

\* a final report over Results of different sizes whose merged error rate
\* differs from the error rate of the pooled requests
C16_Witness ==
    /\ finalReport # NoReport
    /\ Len(finalReport.webApplicationTests) = 4
    /\ LET web == finalReport.summary.webApplication
       IN  /\ web.successfulRequests < web.totalRequests
           /\ web.errorRate #
                Rat(100 * (web.totalRequests - web.successfulRequests),
                    web.totalRequests)

\* C17: in runComprehensiveSuite lightLoad, moderateLoad, heavyLoad, the spike
\* test, the endurance test and the report generation are started in this
\* order, each once, whichever of them fail: the suite ends only after all of
\* them were started.
C17_SuiteContinues ==
    run.command = "comprehensive" =>
        /\ Len(run.started) <= Len(SuiteSequence)
        /\ \A i \in DOMAIN run.started : run.started[i] = SuiteSequence[i]
        /\ runPc = "done" => run.started = SuiteSequence

\* lightLoad and moderateLoad failed, heavyLoad ran after them and recorded
\* its Result, and the suite came to its end
C17_Witness ==
    /\ run.command = "comprehensive"
    /\ runPc = "done"
    /\ run.failed = {"lightLoad", "moderateLoad"}
    /\ run.started = SuiteSequence
    /\ \E i \in DOMAIN runnerResults.webTests :
            runnerResults.webTests[i].scenario = "heavyLoad"

\* C18: when exactly one scenario of a comprehensive suite throws and
\* everything else succeeds, the final report holds a Result for every
\* endpoint of the other scenarios and no entry of the failed scenario.
C18_FailedScenarioAbsent ==
    (/\ run.command = "comprehensive"
     /\ runPc = "done"
     /\ finalReport # NoReport
     /\ Cardinality(run.failed) = 1) =>
        \A name \in {TestSequence[i] : i \in DOMAIN TestSequence} :
            IF name \in run.failed
            THEN \A i \in DOMAIN finalReport.webApplicationTests :
                    finalReport.webApplicationTests[i].scenario # name
            ELSE \A e \in DOMAIN ScenarioTable[name].endpoints :
                    \E i \in DOMAIN finalReport.webApplicationTests :
                        /\ finalReport.webApplicationTests[i].scenario = name
                        /\ finalReport.webApplicationTests[i].suffix
                             = ScenarioTable[name].endpoints[e]

\* C19: runComprehensiveSuite does not raise because scenarios, the spike
\* test or the endurance test failed: it ends by returning with the report
\* generated, or because a report file could not be written.
C19_SuiteNeverAborts ==
    (run.command = "comprehensive" /\ runPc = "done") =>
        \/ run.outcome = "returned" /\ finalReport # NoReport
        \/ run.outcome = "raised" /\ run.error = "write"

\* C20: when dbTester.initialize() fails in runScenario of a scenario with
\* endpoints and databaseQueries, the error is caught with a warning, the web
\* Results recorded stay, no databaseTests entry is added, cleanup is called
\* once, and the scenario fails only if its result file cannot be written.
C20_DatabaseUnavailableSkipped ==
    (run.command = "scenario" /\ run.dbInitFailed) =>
        /\ run.warnings >= 1
        /\ \A e \in DOMAIN ScenarioTable[run.scenarioName].endpoints :
            \E i \in DOMAIN runnerResults.webTests :
                /\ runnerResults.webTests[i].scenario = run.scenarioName
                /\ runnerResults.webTests[i].suffix
                     = ScenarioTable[run.scenarioName].endpoints[e]
        /\ runnerResults.databaseTests = <<>>
        /\ runPc \in {"dbCleanup", "save", "scenarioEnd", "done"}
        /\ run.cleanups = IF runPc = "dbCleanup" THEN 0 ELSE 1
        /\ run.scenarioFailed => run.error = "write"
        /\ runPc = "done" =>
            (run.outcome = "returned" \/ (run.outcome = "raised" /\ run.error = "write"))

\* the driver is missing, and the scenario completed with its web Result
C20_Witness ==
    /\ run.command = "scenario"
    /\ run.dbInitFailed
    /\ ~run.poolCreated
    /\ runPc = "done"
    /\ run.outcome = "returned"
    /\ run.cleanups = 1
    /\ run.saved = {run.scenarioName}
    /\ Len(runnerResults.webTests) = 1

(***************************************************************************)
(* C21  runScenario with a scenario name that is not configured aborts at  *)
(* once with an error: no testEndpoint call is made and no database test   *)
(* is started, webTests and databaseTests stay as they were, no result     *)
(* file is written, and the command ends with a non-zero exit status.      *)
(***************************************************************************)
C21_UnknownScenarioAborts ==
    (run.command = "scenario" /\ run.scenarioName \notin DOMAIN ScenarioTable)
        => /\ runPc \in {"scenario", "scenarioEnd", "done"}
           /\ run.endpoint = 0
           /\ ~run.poolCreated /\ run.cleanups = 0
           /\ runnerResults = InitialRunnerResults
           /\ run.saved = {}
           /\ finalReport = NoReport
           /\ runPc = "done" => /\ run.outcome = "raised"
                                /\ run.error = "notFound"
                                /\ run.exitCode # 0

C21_Witness ==
    /\ run.command = "scenario"
    /\ run.scenarioName \notin DOMAIN ScenarioTable
    /\ runPc = "done"
    /\ run.exitCode = 1

(***************************************************************************)
(* C22  runSpikeTest sets passed to true exactly when the spike phase's    *)
(* error rate is below 5% and its average latency is below three times the *)
(* baseline's average latency; a spike at four times the baseline latency  *)
(* does not pass.                                                          *)
(***************************************************************************)
C22_SpikePassed ==
    calc.fn = "runSpikeTest" =>
        LET b == calc.input[1].avgResponseTime
            s == calc.input[2].avgResponseTime
            e == calc.input[2].errorRate
        IN  /\ calc.output.passed
                <=> /\ e.n < 5 * e.d
                    /\ s.n * b.d < 3 * b.n * s.d
            /\ (b.n > 0 /\ s.n * b.d = 4 * b.n * s.d) => ~calc.output.passed

C22_Witness ==
    /\ calc.fn = "runSpikeTest"
    /\ calc.input[1].avgResponseTime = Num(100)
    /\ calc.input[2].avgResponseTime = Num(400)
    /\ calc.input[2].errorRate = Num(0)
    /\ ~calc.output.passed

(***************************************************************************)
(* C23  Every completed spike test, passed or failed, records              *)
(* spikeMultiplier = spikeUsers / baseUsers exactly and degradationRatio = *)
(* spike average latency / baseline average latency.                       *)
(***************************************************************************)
C23_SpikeRatios ==
    calc.fn = "runSpikeTest" =>
        LET b == calc.input[1].avgResponseTime
            s == calc.input[2].avgResponseTime
            m == calc.output.spikeMultiplier
            r == calc.output.degradationRatio
        IN  /\ m.k = "num"
            /\ m.n * SpikeConfig.baseUsers = m.d * SpikeConfig.spikeUsers
            /\ IF b.n > 0
               THEN r.k = "num" /\ r.n * b.n * s.d = r.d * s.n * b.d
               ELSE IF s.n > 0 THEN r = PosInfinity ELSE r = NaN

C23_Witness ==
    /\ calc.fn = "runSpikeTest"
    /\ ~calc.output.passed
    /\ calc.output.spikeMultiplier = Num(20)
    /\ calc.output.degradationRatio = Rat(299, 150)

(***************************************************************************)
(* C24  calculateStabilityScore returns max(0, 100 - E - L - V): E is 20   *)
(* for an error rate above 1, else 10 above 0.1; L is 30 for an average    *)
(* latency above 1000, else 15 above 500, else 5 above 200; V is 20 for    *)
(* max - min above 3000, else 10 above 1000. No errors, an average of 100  *)
(* ms and a spread of 50 ms give 100; the system is judged stable exactly  *)
(* when the score is above 80.                                             *)
(***************************************************************************)
C24_StabilityScore ==
    calc.fn = "runEnduranceTest" =>
        LET e == calc.input.errorRate
            a == calc.input.avgResponseTime
            v == calc.input.maxResponseTime.n - calc.input.minResponseTime.n
            E == IF e.n > e.d THEN 20 ELSE IF 10 * e.n > e.d THEN 10 ELSE 0
            L == IF a.n > 1000 THEN 30 ELSE IF a.n > 500 THEN 15
                 ELSE IF a.n > 200 THEN 5 ELSE 0
            V == IF v > 3000 THEN 20 ELSE IF v > 1000 THEN 10 ELSE 0
            score == calc.output.stabilityScore
        IN  /\ score = (IF 100 - E - L - V > 0 THEN 100 - E - L - V ELSE 0)
            /\ (e.n = 0 /\ a.n = 100 /\ v = 50) => score = 100
            /\ calc.output.stable <=> score > 80

C24_Witness ==
    /\ calc.fn = "runEnduranceTest"
    /\ calc.input.errorRate = Rat(1, 5)
    /\ calc.input.avgResponseTime = Num(501)
    /\ calc.input.maxResponseTime.n - calc.input.minResponseTime.n = 1001
    /\ calc.output.stabilityScore = 65
    /\ ~calc.output.stable

(***************************************************************************)
(* C25  As stated: every batch with an error rate of 2% and an average     *)
(* latency of 1500 ms has a stability score of at most 30, whatever its    *)
(* latency spread.                                                         *)
(***************************************************************************)
C25_AtMost30 ==
    (/\ calc.fn = "runEnduranceTest"
     /\ calc.input.errorRate = Num(2)
     /\ calc.input.avgResponseTime = Num(1500))
        => calc.output.stabilityScore <= 30

(***************************************************************************)
(* C25  Amended: every batch with an error rate of 2% and an average       *)
(* latency of 1500 ms has a stability score of at most 50, whatever its    *)
(* latency spread; the score is at most 30 exactly when the spread is      *)
(* above 3000 ms.                                                          *)
(***************************************************************************)
C25_AtMost50 ==
    (/\ calc.fn = "runEnduranceTest"
     /\ calc.input.errorRate = Num(2)
     /\ calc.input.avgResponseTime = Num(1500))
        => /\ calc.output.stabilityScore <= 50
           /\ calc.output.stabilityScore <= 30
                <=> calc.input.maxResponseTime.n
                        - calc.input.minResponseTime.n > 3000

C25_Witness ==
    /\ calc.fn = "runEnduranceTest"
    /\ calc.input.errorRate = Num(2)
    /\ calc.input.avgResponseTime = Num(1500)
    /\ calc.input.maxResponseTime.n - calc.input.minResponseTime.n = 50
    /\ calc.output.stabilityScore = 50

(***************************************************************************)
(* C26  analyzeStabilityTrend splits the samples into the first            *)
(* floor(n / 2) and the rest and takes trend = (secondAvg - firstAvg) /    *)
(* firstAvg over the average latencies of the two parts. It answers        *)
(* "stable" exactly when |trend| is below 10%, "degrading" exactly when    *)
(* the latency rose by more than 10%, and "improving" otherwise; it always *)
(* answers one of the three.                                               *)
(***************************************************************************)
C26_StabilityTrend ==
    calc.fn = "runContinuousTest" =>
        LET times == [i \in DOMAIN calc.input |->
                        calc.input[i].avgResponseTime.n]
            n == Len(times)
            nf == n \div 2
            ns == n - nf
            f == SumSeq(SubSeq(times, 1, nf))
            s == SumSeq(SubSeq(times, nf + 1, n))
            \* (secondAvg - firstAvg) * nf * ns
            diff == s * nf - f * ns
            \* trend = diff / (f * ns) when the first average is positive
            isStable == nf > 0 /\ f > 0 /\ 10 * Abs(diff) < f * ns
            isDegrading ==
                nf > 0 /\ ((f > 0 /\ 10 * diff > f * ns) \/ (f = 0 /\ s > 0))
            answer == calc.output.stabilityTrend
        IN  /\ answer \in {"stable", "degrading", "improving"}
            /\ answer = "stable" <=> isStable
            /\ answer = "degrading" <=> isDegrading
            /\ answer = "improving" <=> (~isStable /\ ~isDegrading)

C26_Witness ==
    /\ calc.fn = "runContinuousTest"
    /\ Len(calc.input) = 3
    /\ calc.input[1].avgResponseTime = Num(100)
    /\ calc.input[2].avgResponseTime = Num(100)
    /\ calc.input[3].avgResponseTime = Num(120)
    /\ calc.output.stabilityTrend = "improving"

(***************************************************************************)
(* C27  calculateOverallGrade gives score = 100 - L - E, where L is 30 for *)
(* a merged average latency above 2000, else 20 above 1000, else 10 above  *)
(* 500, and E is 25 for a merged error rate above 5, else 15 above 1, else *)
(* 5 above 0.1; the grade is A from 90, B from 80, C from 70, D from 60    *)
(* and F below.                                                            *)
(***************************************************************************)
C27_OverallGrade ==
    calc.fn = "generateOverallSummary" =>
        LET a == calc.input.avgResponseTime
            e == calc.input.errorRate
            L == IF a.n > 2000 * a.d THEN 30 ELSE IF a.n > 1000 * a.d THEN 20
                 ELSE IF a.n > 500 * a.d THEN 10 ELSE 0
            E == IF e.n > 5 * e.d THEN 25 ELSE IF e.n > e.d THEN 15
                 ELSE IF 10 * e.n > e.d THEN 5 ELSE 0
            g == calc.output.overallGrade
        IN  /\ g.score = 100 - L - E
            /\ g.grade = "A" <=> g.score >= 90
            /\ g.grade = "B" <=> (80 <= g.score /\ g.score < 90)
            /\ g.grade = "C" <=> (70 <= g.score /\ g.score < 80)
            /\ g.grade = "D" <=> (60 <= g.score /\ g.score < 70)
            /\ g.grade = "F" <=> g.score < 60

C27_Witness ==
    /\ calc.fn = "generateOverallSummary"
    /\ calc.input.avgResponseTime = Num(1001)
    /\ calc.input.errorRate = Num(5)
    /\ calc.output.overallGrade = [grade |-> "D", score |-> 65]

(***************************************************************************)
(* C28  assessProductionReadiness answers ready exactly when the merged    *)
(* average latency is below 500 ms and the merged error rate is below 1;   *)
(* so every summary judged ready also has the grade A.                     *)
(***************************************************************************)
C28_ReadyImpliesA ==
    calc.fn = "generateOverallSummary" =>
        LET a == calc.input.avgResponseTime
            e == calc.input.errorRate
        IN  /\ calc.output.readiness.ready
                <=> (a.n < 500 * a.d /\ e.n < e.d)
            /\ calc.output.readiness.ready
                => calc.output.overallGrade.grade = "A"

C28_Witness ==
    /\ calc.fn = "generateOverallSummary"
    /\ calc.input.avgResponseTime = Num(499)
    /\ calc.input.errorRate = Rat(9, 10)
    /\ calc.output.readiness.ready
    /\ calc.output.overallGrade = [grade |-> "A", score |-> 95]

(***************************************************************************)
(* C29  generateOverallRecommendations emits exactly one recommendation    *)
(* per threshold breach of every recorded result, without deduplication:   *)
(* one per web Result with an average latency above 1000 ms, one per web   *)
(* Result with an error rate above 1, and one per database result - every  *)
(* named query result and every concurrent-load result - with an average   *)
(* query time above 500 ms.                                                *)
(***************************************************************************)
C29_OnePerBreach ==
    calc.fn = "generateOverallRecommendations" =>
        LET web == calc.input.webTests
            db == calc.input.databaseTests
            Count(category) ==
                Cardinality({i \in DOMAIN calc.output :
                                calc.output[i].category = category})
            slowWeb == {i \in DOMAIN web :
                            web[i].result.avgResponseTime.n > 1000}
            failingWeb == {i \in DOMAIN web : web[i].result.errorRate.n > 1}
            slowConcurrent ==
                {i \in DOMAIN db : /\ db[i].result.kind = "concurrent"
                                   /\ db[i].result.avgQueryTime.n > 500}
            slowNamed ==
                {<<i, q>> \in (DOMAIN db) \X (1..2) :
                    /\ db[i].result.kind = "queries"
                    /\ q \in DOMAIN db[i].result.named
                    /\ db[i].result.named[q].avgQueryTime.n > 500}
        IN  /\ Count("Performance") = Cardinality(slowWeb)
            /\ Count("Reliability") = Cardinality(failingWeb)
            /\ Count("Database")
                = Cardinality(slowConcurrent) + Cardinality(slowNamed)

(***************************************************************************)
(* C30  In runScenario, runComprehensiveSuite, runSpikeTest and stressTest *)
(* the testEndpoint invocations never overlap: an invocation, and with it  *)
(* every request it issues, starts only when the previous invocation has   *)
(* returned, and an invocation returns only when all its requests have     *)
(* completed. The suite runs in the fixed order lightLoad, moderateLoad,   *)
(* heavyLoad, spike test, endurance test, report.                          *)
(***************************************************************************)
C30_NoOverlap ==
    [][/\ (caller.pc = "call" /\ caller'.pc = "awaiting")
            => /\ pc = "idle"
               /\ \A i \in DOMAIN promises : promises[i].state = "resolved"
       /\ (pc = "awaiting" /\ pc' = "idle")
            => \A i \in DOMAIN promises : promises[i].state = "resolved"
       /\ caller'.program = "runComprehensiveSuite"
            => LET log == caller'.log
                   Position(owner) ==
                        CHOOSE k \in DOMAIN SuiteSequence :
                            SuiteSequence[k] = owner
               IN  /\ \A i \in DOMAIN log :
                        \E k \in DOMAIN SuiteSequence : SuiteSequence[k] = log[i]
                   /\ \A i, j \in DOMAIN log :
                        i < j => Position(log[i]) <= Position(log[j])
                   /\ \A i \in DOMAIN log :
                        \A k \in 1..(Position(log[i]) - 1) :
                            \E j \in 1..i : log[j] = SuiteSequence[k]]_vars

C30_Witness ==
    /\ caller.program = "runComprehensiveSuite"
    /\ caller.pc = "awaiting"
    /\ caller.steps[caller.next].owner = "enduranceTest"
    /\ pc = "awaiting"
    /\ promises[1].state = "inflight"
    /\ Len(caller.log) = 8

(***************************************************************************)
(* C31  In every execution of runComprehensiveSuite, executions in which a *)
(* scenario fails included, a 30-second recovery pause lies between two    *)
(* consecutive scenarios: the next scenario starts only out of the pause   *)
(* that followed the one before.                                           *)
(***************************************************************************)
C31_PauseBetweenScenarios ==
    [][(/\ run.command = "comprehensive"
        /\ run.idx >= 1
        /\ run'.idx = run.idx + 1)
            => runPc = "sleep"]_vars

(***************************************************************************)
(* C32  runSpikeTest runs its phases in strict sequence and once each: the *)
(* baseline batch (baseUsers), the spike batch (spikeUsers), the recovery  *)
(* pause, and a recovery batch with the concurrency, request count and     *)
(* delay of the baseline. No phase starts before the one before it has     *)
(* returned, and the result is recorded only after the recovery batch has  *)
(* returned.                                                               *)
(***************************************************************************)
C32_SpikePhasesInSequence ==
    caller.program = "runSpikeTest" =>
        LET phases == caller.calls
            n == Len(phases)
            batches == {i \in 1..n : phases[i].kind = "testEndpoint"}
        IN  /\ n <= 4
            /\ \A i \in 1..n : (phases[i].kind = "sleep") <=> (i = 3)
            /\ n >= 1 => phases[1].concurrentUsers = ScaledSpikeConfig.baseUsers
            /\ n >= 2 => phases[2].concurrentUsers = ScaledSpikeConfig.spikeUsers
            /\ n >= 4 =>
                /\ phases[4].url = phases[1].url
                /\ phases[4].concurrentUsers = phases[1].concurrentUsers
                /\ phases[4].requestsPerUser = phases[1].requestsPerUser
                /\ phases[4].delayBetweenRequests = phases[1].delayBetweenRequests
            /\ pc = "awaiting" => caller.pc = "awaiting"
            /\ Len(caller.returns) =
                    Cardinality(batches) - (IF caller.pc = "awaiting" THEN 1 ELSE 0)
            /\ \A i \in 1..Len(caller.returns) :
                    caller.returns[i].result.totalRequests =
                        caller.returns[i].users
                            * phases[IF i = 3 THEN 4 ELSE i].requestsPerUser
            /\ caller.recorded => /\ n = 4
                                  /\ Len(caller.returns) = 3
                                  /\ pc = "idle"

C32_Witness ==
    /\ caller.program = "runSpikeTest"
    /\ caller.recorded
    /\ Len(caller.calls) = 4
    /\ caller.returns[3].result.failedRequests = 1

\* what C33 says of a run of runContinuousTest, with the durations from which
\* on it promises a sample: those above `floor` ticks
ContinuousRunAsClaimed(floor) ==
    LET started == monitor.started
        samples == monitor.samples
        inProbe == IF monitor.pc = "probing" THEN 1 ELSE 0
    IN  \* every probe is 5 actors x 2 requests
        /\ \A i \in DOMAIN started :
                /\ started[i].call.concurrentUsers = 5
                /\ started[i].call.requestsPerUser = 2
        \* one sample per probe that has returned
        /\ Len(samples) = Len(started) - inProbe
        \* no probe is started once the duration has elapsed
        /\ \A i \in DOMAIN started :
                started[i].at - monitor.startTime < monitor.duration
        \* a wait of two minutes lies between a sample and the next probe
        /\ \A i \in DOMAIN started :
                i > 1 => started[i].at >= samples[i - 1].timestamp + SamplingInterval
        /\ monitor.pc = "sleeping" => Len(samples) >= 1
        \* at the end: samples = probes run, and at least one of them
        /\ monitor.pc = "done" =>
                /\ monitor.continuousMonitoring.samples = Len(started)
                /\ Len(samples) = Len(started)
                /\ monitor.duration > floor => Len(samples) >= 1

(***************************************************************************)
(* C33 as stated: runContinuousTest repeats a probe of 5 actors x 2        *)
(* requests followed by a 2-minute wait and accumulates one sample per     *)
(* iteration; it starts no probe once the duration has elapsed, and it     *)
(* takes at least one sample whenever the duration is positive.            *)
(***************************************************************************)
C33_SampleForEveryPositiveDuration == ContinuousRunAsClaimed(0)

(***************************************************************************)
(* C33  runContinuousTest repeats a probe of 5 actors x 2 requests         *)
(* followed by a 2-minute wait and accumulates one sample per iteration;   *)
(* it starts no probe once the duration has elapsed; it takes at least one *)
(* sample when the duration is longer than the time the function needs to  *)
(* reach its first loop test (with a shorter positive duration it may take *)
(* none); and, when time goes on and every probe returns, it terminates    *)
(* with samples = number of probes run.                                    *)
(***************************************************************************)
C33_ContinuousTest ==
    /\ [](/\ ContinuousRunAsClaimed(
                CHOOSE t \in SyncTicks : \A u \in SyncTicks : u <= t)
          /\ (monitor.pc = "done" /\ monitor.samples = <<>>)
                => monitor.firstTest >= monitor.endTime)
    /\ (monitor.pc # "idle") ~> (monitor.pc = "done")

C33_Witness ==
    /\ monitor.pc = "done"
    /\ monitor.duration = MaxDuration
    /\ Len(monitor.samples) = 2
    /\ monitor.continuousMonitoring.samples = 2
    /\ monitor.now > monitor.endTime

(***************************************************************************)
(* C34  For every scenario of the shipped configuration that declares      *)
(* databaseQueries (databaseLoad), runScenario against a configured        *)
(* environment completes without failing: the scenario is never marked     *)
(* failed, and the command ends by returning with the scenario's results   *)
(* saved.                                                                  *)
(***************************************************************************)
C34_DatabaseScenarioCompletes ==
    (/\ run.command = "scenario"
     /\ run.environment \in Environments
     /\ run.scenarioName \in DOMAIN Scenarios
     /\ Scenarios[run.scenarioName].databaseQueries)
        => /\ ~run.scenarioFailed
           /\ runPc = "done" => /\ run.outcome = "returned"
                                /\ run.scenarioName \in run.saved

C36_AccumulatorConsistent ==
    LET summary == results.summary
        succeeded == {i \in DOMAIN results.detailed : results.detailed[i].success}
    IN  /\ summary.totalRequests = Len(results.detailed)
        /\ summary.totalRequests =
                summary.successfulRequests + summary.failedRequests
        /\ summary.successfulRequests = Cardinality(succeeded)

C36_Witness ==
    /\ pc = "idle"
    /\ nBatches = 2
    /\ Len(results.detailed) = 2
    /\ results.summary.successfulRequests = 1
    /\ results.summary.failedRequests = 1

\* the sum of totalRequests over the entries urls of endpoints
RECURSIVE EndpointRequests(_, _)
EndpointRequests(endpoints, urls) ==
    IF urls = {} THEN 0
    ELSE LET u == CHOOSE x \in urls : TRUE
         IN  endpoints[u].totalRequests + EndpointRequests(endpoints, urls \ {u})

(***************************************************************************)
(* C37  After any sequence of completed testEndpoint calls on one          *)
(* LoadTester, repeated batches against one URL included, the per-endpoint *)
(* Results account for every request: the sum of totalRequests over        *)
(* results.endpoints equals summary.totalRequests.                         *)
(***************************************************************************)
C37_EndpointsAccountForAll ==
    EndpointRequests(results.endpoints, DOMAIN results.endpoints)
        = results.summary.totalRequests

(***************************************************************************)
(* C38  The verdict of the spike test does not depend on the recovery      *)
(* phase: two runs of runSpikeTest with the same baseline and spike        *)
(* Results and any two recovery Results (0% against 100% errors, say)      *)
(* yield the same passed, spikeMultiplier and degradationRatio.            *)
(***************************************************************************)
C38_VerdictIgnoresRecovery ==
    (calc.fn = "runSpikeTest" /\ "prev" \in DOMAIN calc)
        => /\ calc.input[1] = calc.prev.input[1]
           /\ calc.input[2] = calc.prev.input[2]
           /\ calc.output.passed = calc.prev.output.passed
           /\ calc.output.spikeMultiplier = calc.prev.output.spikeMultiplier
           /\ calc.output.degradationRatio = calc.prev.output.degradationRatio

C38_Witness ==
    /\ calc.fn = "runSpikeTest"
    /\ "prev" \in DOMAIN calc
    /\ calc.prev.input[3].errorRate = Num(0)
    /\ calc.input[3].errorRate = Num(100)
    /\ calc.output.recovery # calc.prev.output.recovery
    /\ calc.output.passed

(***************************************************************************)
(* C39  For every list of samples, of length 0 and 1 too,                  *)
(* analyzeStabilityTrend answers "improving" only when the average latency *)
(* of the second half of the samples is strictly lower than the average    *)
(* latency of the first half.                                              *)
(***************************************************************************)
C39_ImprovingMeansLower ==
    (calc.fn = "runContinuousTest" /\ calc.output.stabilityTrend = "improving")
        => LET times == [i \in DOMAIN calc.input |->
                            calc.input[i].avgResponseTime.n]
               n == Len(times)
               nf == n \div 2
               ns == n - nf
               f == SumSeq(SubSeq(times, 1, nf))
               s == SumSeq(SubSeq(times, nf + 1, n))
           IN  \* secondAvg < firstAvg, both halves being non-empty
               /\ nf > 0
               /\ s * nf < f * ns

(***************************************************************************)
(* C40  The recommendations of generateReport reflect the measurements of  *)
(* the report they are part of: the high-error-rate recommendation is      *)
(* present exactly when the report's errorRate is above 5, the             *)
(* high-latency one exactly when its average response time is above 2000   *)
(* ms, and the success one exactly when the average response time is below *)
(* 500 ms and the errorRate below 1.                                       *)
(***************************************************************************)
C40_RecommendationsReflectReport ==
    (report # NoReport /\ report.summary.totalRequests > 0) =>
        LET Has(type) ==
                \E i \in DOMAIN report.recommendations :
                    report.recommendations[i] = type
            avg == report.summary.avgResponseTime
            err == report.summary.errorRate
        IN  /\ Has("reliability") <=> JsGt(err, 5)
            /\ Has("performance") <=> JsGt(avg, 2000)
            /\ Has("success") <=> (JsLt(avg, 500) /\ JsLt(err, 1))

====
